---- MODULE Spec2Model ----
(***************************************************************************)
(* Book recommendation backend: the similarity query of main.py            *)
(* (get_recommendations over the fitted cosine k-nearest-neighbour index)  *)
(* and the Redis cache-aside layer of backend/cache_service.py with its    *)
(* callers in main.py, backend/books.py and backend/cache_admin.py.        *)
(***************************************************************************)
EXTENDS Integers, Sequences, FiniteSets, TLC

VARIABLES
    books_df,      \* main.py books_df: the rows of the loaded index, in row order
    knn_model,     \* main.py knn_model: query vector -> all rows, closest first
    recCall,       \* the last direct call of get_recommendations and its outcome
    is_available,  \* redis_config.py RedisClient._is_available
    client,        \* redis_config.py RedisClient._instance (None or a connection)
    store,         \* the Redis database: key -> [val, ttl, age]
    db,            \* the books table of the relational store: id -> title
    last,          \* the last operation served and what its caller observed
    seq,           \* the run of consecutive successful reads of one key
    warm,          \* main.py startup_event: how far cache warming has got
    reqs,          \* the requests in flight, one per worker, and their position
    csv_rows       \* books.py add_book: the rows appended to books.csv

vars == <<books_df, knn_model, recCall, is_available, client, store, db, last, seq,
          warm, reqs, csv_rows>>
indexVars == <<books_df, knn_model>>
procVars == <<warm, reqs, csv_rows>>
cacheVars == <<is_available, client, store, db, last, seq>>

(***************************************************************************)
(* Bounds of the model.                                                    *)
(***************************************************************************)
\* Largest number of rows of an index drawn for the similarity query.
MaxBooks == 3
\* Largest n passed to get_recommendations(book_id, n) when called directly.
MaxN == 3
\* The hit and miss counters are followed up to this value.
MaxCount == 2
\* Number of rows of the index the service runs on.
MainRows == 12
\* Most cache writes that fail during one warming.
MaxWarmFaults == 1
\* Most rows appended to books.csv.
MaxCsvRows == 1

(***************************************************************************)
(* Program constants.                                                      *)
(***************************************************************************)
\* main.py: def get_recommendations(book_id, n=10)
DefaultN == 10
\* main.py startup_event: books_df.nlargest(10, 'ratings_count')
WarmTopK == 10

None == "None"

(***************************************************************************)
(* The similarity index.  training.py fits TF-IDF rows (non-negative       *)
(* vectors; every text holds the token "rating", so no row is the zero     *)
(* vector) and a brute-force cosine NearestNeighbors over them.            *)
(***************************************************************************)
Vecs == {<<1, 0>>, <<1, 1>>, <<0, 1>>}

Dot(a, b) == a[1] * b[1] + a[2] * b[2]

\* Cosine distance 1 - a.b/(|a||b|) compared without roots: for non-negative
\* vectors, d(q,x) < d(q,y) iff (q.x)^2 |y|^2 > (q.y)^2 |x|^2.
Closer(q, x, y) ==
    Dot(q, x) * Dot(q, x) * Dot(y, y) > Dot(q, y) * Dot(q, y) * Dot(x, x)

SameDistance(q, x, y) ==
    Dot(q, x) * Dot(q, x) * Dot(y, y) = Dot(q, y) * Dot(q, y) * Dot(x, x)

\* Row p comes before row r in the neighbour order of query vector q: by
\* ascending distance; the order of equidistant rows is whatever the fitted
\* index produces (rank), fixed for a given build.
Before(df, rank, q, p, r) ==
    \/ Closer(q, df[p].vec, df[r].vec)
    \/ /\ SameDistance(q, df[p].vec, df[r].vec)
       /\ rank[p] < rank[r]

RECURSIVE SortRows(_, _, _, _)
SortRows(df, rank, q, rows) ==
    IF rows = {} THEN <<>>
    ELSE LET first == CHOOSE p \in rows :
                         \A r \in rows \ {p} : Before(df, rank, q, p, r)
         IN  <<first>> \o SortRows(df, rank, q, rows \ {first})

\* training.py knn_model.fit(tfidf_matrix): the fitted brute-force model answers
\* a query vector with the rows in ascending cosine distance.
Fit(df, rank) == [q \in Vecs |-> SortRows(df, rank, q, DOMAIN df)]

\* knn_model.kneighbors(text_vec, n_neighbors=k): the k closest row positions,
\* closest first; scikit-learn raises ValueError when k exceeds the number of
\* fitted rows.
kneighbors(knn, q, k) ==
    IF k > Len(knn[q]) THEN [err |-> "ValueError", indices |-> <<>>]
    ELSE [err |-> None, indices |-> SubSeq(knn[q], 1, k)]

BookIds(df) == {df[p].book_id : p \in DOMAIN df}

\* books_df.index[books_df["book_id"] == book_id][0]
RowOf(df, book_id) ==
    CHOOSE p \in DOMAIN df :
        /\ df[p].book_id = book_id
        /\ \A r \in DOMAIN df : df[r].book_id = book_id => p <= r

\* One element of the recommendation list (the row's display attributes).
FormatRow(row) == [book_id |-> row.book_id, ratings_count |-> row.ratings_count]

\* The list get_recommendations skips the first neighbour and formats the rest.
DropFirstNeighbour(indices) == Tail(indices)

\* main.py get_recommendations(book_id, n) over index df.
Recommendations(df, knn, book_id, n) ==
    IF book_id \notin BookIds(df)
    THEN [err |-> "404", list |-> <<>>]
    ELSE LET idx == RowOf(df, book_id)
             nn  == kneighbors(knn, df[idx].vec, n + 1)
         IN  IF nn.err # None
             THEN [err |-> nn.err, list |-> <<>>]
             ELSE LET rec_indices == DropFirstNeighbour(nn.indices)
                  IN  [err |-> None,
                       list |-> [i \in 1..Len(rec_indices) |->
                                    FormatRow(df[rec_indices[i]])]]

get_recommendations(book_id, n) == Recommendations(books_df, knn_model, book_id, n)

(***************************************************************************)
(* Indexes drawn for the similarity query.                                 *)
(***************************************************************************)
\* Row p of an index of len rows: book ids are unique and are not the row
\* positions (ascending or descending in row order).
IdAt(layout, len, p) == IF layout = "asc" THEN 10 + p ELSE 10 + (len + 1 - p)

Indexes(len) ==
    { [p \in 1..len |-> [book_id |-> IdAt(layout, len, p),
                         vec |-> vs[p],
                         ratings_count |-> p]] :
        layout \in {"asc", "desc"}, vs \in [1..len -> Vecs] }

TieOrders(len) ==
    { f \in [1..len -> 1..len] : \A a, b \in 1..len : a # b => f[a] # f[b] }


(***************************************************************************)
(* Python values as the handlers see them.                                 *)
(***************************************************************************)
PyNone == [kind |-> "NoneType"]
PyList(items) == [kind |-> "list", items |-> items]
\* The text json.dumps produces for value v (a non-empty str).
PyText(v) == [kind |-> "str", json |-> v]
\* {"book_id": ..., "recommendations": [...]}
RecResult(book_id, recs) ==
    [kind |-> "dict", book_id |-> book_id, recommendations |-> recs]
ErrorBody(detail) == [kind |-> "error", detail |-> detail]
Message(text) == [kind |-> "dict", message |-> text]

\* Python truth value: None and the empty list are false; a non-empty dict
\* and a non-empty str are true.
Truthy(v) ==
    CASE v.kind = "NoneType" -> FALSE
      [] v.kind = "list"     -> v.items # <<>>
      [] OTHER               -> TRUE

\* Python values json.dumps has no encoding for: decimal.Decimal (its digits
\* and the number of them after the point) and datetime.
PyDecimal(digits, scale) == [kind |-> "Decimal", digits |-> digits, scale |-> scale]
PyDatetime(iso) == [kind |-> "datetime", iso |-> iso]
PyFloat(hundredths) == [kind |-> "float", hundredths |-> hundredths]
NotJson == {"Decimal", "datetime"}

\* json.dumps(value) raises TypeError for a value that is, or whose extra
\* column is, of a type without encoding (no default= is passed).
JsonEncodable(v) ==
    /\ v.kind \notin NotJson
    /\ "extra" \in DOMAIN v => v.extra.kind \notin NotJson

\* json.dumps / json.loads of the values the handlers cache (dicts and lists
\* of str, int and float fields): the text holds the value, and loads gives
\* it back.
JsonDumps(v) == PyText(v)
JsonLoads(text) == text.json

\* A stored text that is not JSON (written by something other than
\* json.dumps); json.loads raises JSONDecodeError for it.
Garbage == [kind |-> "str", raw |-> "{not json"]
JsonDecodable(text) == "json" \in DOMAIN text

(***************************************************************************)
(* cache_service.py constants.                                             *)
(***************************************************************************)
CACHE_TTL_RECOMMENDATIONS == 3600
CACHE_TTL_BOOKS == 300
CACHE_TTL_BOOK_DETAIL == 1800

KEY_PREFIX_RECOMMENDATIONS == "book:recommendations:"
KEY_PREFIX_BOOKS_LIST == "book:list:all"
KEY_PREFIX_BOOK_DETAIL == "book:detail:"
KEY_PREFIX_STATS_HITS == "stats:cache:hits"
KEY_PREFIX_STATS_MISSES == "stats:cache:misses"

\* Variant of the recommendations key without the book id (sensitivity of
\* C29).
RecKeyShared(book_id) == KEY_PREFIX_RECOMMENDATIONS

RecKey(book_id) == KEY_PREFIX_RECOMMENDATIONS \o ToString(book_id)
DetailKey(book_id) == KEY_PREFIX_BOOK_DETAIL \o ToString(book_id)

(***************************************************************************)
(* The Redis server: the commands the client issues, on the database       *)
(* st: key -> [val, ttl, age].  ttl is the expiry given when the key was    *)
(* written, age the seconds elapsed since; a key with an expiry is gone     *)
(* once age reaches ttl.  INCR creates its key without expiry.             *)
(***************************************************************************)
NoExpiry == 0 - 1
EmptyStore == [k \in {} |-> PyNone]

RedisGet(st, key) == IF key \in DOMAIN st THEN st[key].val ELSE PyNone

\* Variant of SETEX whose value can be read before its list is written
\* (sensitivity of C18).
RedisSetexTorn(st, key, ttl, text) ==
    [k \in DOMAIN st \cup {key} |->
        IF k = key
        THEN [val |-> IF text.json.kind = "dict" /\ "recommendations" \in DOMAIN text.json
                      THEN PyText([text.json EXCEPT !.recommendations = <<>>])
                      ELSE text,
              ttl |-> ttl, age |-> 0]
        ELSE st[k]]

RedisSetex(st, key, ttl, text) ==
    [k \in DOMAIN st \cup {key} |->
        IF k = key THEN [val |-> text, ttl |-> ttl, age |-> 0] ELSE st[k]]

\* Variant of INCR that gives a counter it creates an expiry (sensitivity of
\* C17).
RedisIncrExpiring(st, key) ==
    [k \in DOMAIN st \cup {key} |->
        IF k # key THEN st[k]
        ELSE IF key \in DOMAIN st
             THEN [st[key] EXCEPT !.val = PyText(st[key].val.json + 1)]
             ELSE [val |-> PyText(1), ttl |-> CACHE_TTL_BOOK_DETAIL, age |-> 0]]

RedisIncr(st, key) ==
    [k \in DOMAIN st \cup {key} |->
        IF k # key THEN st[k]
        ELSE IF key \in DOMAIN st
             THEN [st[key] EXCEPT !.val = PyText(st[key].val.json + 1)]
             ELSE [val |-> PyText(1), ttl |-> NoExpiry, age |-> 0]]

RedisDelete(st, key) == [k \in DOMAIN st \ {key} |-> st[k]]

\* Variant of FLUSHDB that leaves the two counters (sensitivity of C13).
RedisFlushEntries(st) ==
    [k \in DOMAIN st \cap {KEY_PREFIX_STATS_HITS, KEY_PREFIX_STATS_MISSES} |-> st[k]]

RedisFlushdb(st) == EmptyStore

RedisKeys(st) == DOMAIN st

\* d seconds pass on the server.
Elapse(st, d) ==
    LET aged(k) == IF st[k].ttl = NoExpiry THEN st[k]
                   ELSE [st[k] EXCEPT !.age = @ + d]
        live == {k \in DOMAIN st : aged(k).ttl = NoExpiry \/ aged(k).age < aged(k).ttl}
    IN  [k \in live |-> aged(k)]

\* int(client.get(key) or 0)
IntOrZero(v) == IF Truthy(v) THEN v.json ELSE 0

Hits(st) == IntOrZero(RedisGet(st, KEY_PREFIX_STATS_HITS))
Misses(st) == IntOrZero(RedisGet(st, KEY_PREFIX_STATS_MISSES))

(***************************************************************************)
(* cache_service.py.  Each function takes the database and the client's    *)
(* availability flag, and which of its Redis commands raises (fail), and    *)
(* returns its result with the database it leaves.  fault: the client was  *)
(* unavailable or a command raised.  exc: an exception left the function.  *)
(***************************************************************************)
\* Variant of _get_cache that does not count a hit (sensitivity of C6).
_get_cache_uncounted(st, avail, key, fail) ==
    IF ~avail \/ fail # "no"
    THEN [ret |-> PyNone, store |-> st, read |-> "none", fault |-> TRUE, exc |-> FALSE]
    ELSE LET data == RedisGet(st, key)
         IN  IF Truthy(data)
             THEN [ret |-> JsonLoads(data), store |-> st,
                   read |-> "hit", fault |-> FALSE, exc |-> FALSE]
             ELSE [ret |-> PyNone,
                   store |-> RedisIncr(st, KEY_PREFIX_STATS_MISSES),
                   read |-> "miss", fault |-> FALSE, exc |-> FALSE]

\* Variant of _get_cache without its "except Exception" (sensitivity of C9).
_get_cache_raising(st, avail, key, fail) ==
    IF ~avail
    THEN [ret |-> PyNone, store |-> st, read |-> "none", fault |-> TRUE, exc |-> FALSE]
    ELSE IF fail # "no"
    THEN [ret |-> PyNone, store |-> st, read |-> "none", fault |-> TRUE, exc |-> TRUE]
    ELSE LET data == RedisGet(st, key)
         IN  IF Truthy(data)
             THEN [ret |-> JsonLoads(data),
                   store |-> RedisIncr(st, KEY_PREFIX_STATS_HITS),
                   read |-> "hit", fault |-> FALSE, exc |-> FALSE]
             ELSE [ret |-> PyNone,
                   store |-> RedisIncr(st, KEY_PREFIX_STATS_MISSES),
                   read |-> "miss", fault |-> FALSE, exc |-> FALSE]

_get_cache(st, avail, key, fail) ==
    IF ~avail
    THEN [ret |-> PyNone, store |-> st, read |-> "none", fault |-> TRUE, exc |-> FALSE]
    ELSE IF fail = "get"
    THEN [ret |-> PyNone, store |-> st, read |-> "none", fault |-> TRUE, exc |-> FALSE]
    ELSE LET data == RedisGet(st, key)
         IN  IF fail = "incr"
             THEN [ret |-> PyNone, store |-> st, read |-> "none",
                   fault |-> TRUE, exc |-> FALSE]
             ELSE IF Truthy(data)
             THEN [ret |-> IF JsonDecodable(data) THEN JsonLoads(data) ELSE PyNone,
                   store |-> RedisIncr(st, KEY_PREFIX_STATS_HITS),
                   read |-> "hit", fault |-> FALSE, exc |-> FALSE]
             ELSE [ret |-> PyNone,
                   store |-> RedisIncr(st, KEY_PREFIX_STATS_MISSES),
                   read |-> "miss", fault |-> FALSE, exc |-> FALSE]

\* A ttl argument with a default: <<>> when the caller passes none, <<t>> when
\* it passes t.
NoTtl == <<>>
TtlOr(arg, default) == IF arg = NoTtl THEN default ELSE arg[1]

\* Variant of _set_cache that writes with SET, without expiry (sensitivity
\* of C4).
_set_cache_persistent(st, avail, key, value, ttl, fail) ==
    IF ~avail \/ fail
    THEN [ok |-> FALSE, store |-> st, fault |-> TRUE, exc |-> FALSE]
    ELSE [ok |-> TRUE, store |-> RedisSetex(st, key, NoExpiry, JsonDumps(value)),
          fault |-> FALSE, exc |-> FALSE]

_set_cache(st, avail, key, value, ttl, fail) ==
    IF ~avail
    THEN [ok |-> FALSE, store |-> st, fault |-> TRUE, exc |-> FALSE]
    ELSE IF ~JsonEncodable(value)   \* json.dumps raises TypeError
    THEN [ok |-> FALSE, store |-> st, fault |-> FALSE, exc |-> FALSE]
    ELSE IF fail
    THEN [ok |-> FALSE, store |-> st, fault |-> TRUE, exc |-> FALSE]
    ELSE IF ttl <= 0   \* SETEX answers "invalid expire time"
    THEN [ok |-> FALSE, store |-> st, fault |-> FALSE, exc |-> FALSE]
    ELSE [ok |-> TRUE, store |-> RedisSetex(st, key, ttl, JsonDumps(value)),
          fault |-> FALSE, exc |-> FALSE]

\* Variant of _delete_cache that reports a key it did not find as a failure
\* (sensitivity of C14).
_delete_cache_strict(st, avail, key, fail) ==
    IF ~avail \/ fail
    THEN [ok |-> FALSE, store |-> st, fault |-> TRUE]
    ELSE [ok |-> key \in DOMAIN st, store |-> RedisDelete(st, key), fault |-> FALSE]

\* Variant of _delete_cache that reports success and deletes nothing
\* (sensitivity of C5).
_delete_cache_kept(st, avail, key, fail) ==
    IF ~avail \/ fail
    THEN [ok |-> FALSE, store |-> st, fault |-> TRUE]
    ELSE [ok |-> TRUE, store |-> st, fault |-> FALSE]

_delete_cache(st, avail, key, fail) ==
    IF ~avail \/ fail
    THEN [ok |-> FALSE, store |-> st, fault |-> TRUE]
    ELSE [ok |-> TRUE, store |-> RedisDelete(st, key), fault |-> FALSE]

get_cached_recommendations(st, avail, book_id, fail) ==
    _get_cache(st, avail, RecKey(book_id), fail)

set_cached_recommendations(st, avail, book_id, data, ttl, fail) ==
    _set_cache(st, avail, RecKey(book_id), data,
               TtlOr(ttl, CACHE_TTL_RECOMMENDATIONS), fail)

invalidate_recommendations(st, avail, book_id, fail) ==
    _delete_cache(st, avail, RecKey(book_id), fail)

get_cached_books(st, avail, fail) == _get_cache(st, avail, KEY_PREFIX_BOOKS_LIST, fail)

set_cached_books(st, avail, data, ttl, fail) ==
    _set_cache(st, avail, KEY_PREFIX_BOOKS_LIST, data, TtlOr(ttl, CACHE_TTL_BOOKS), fail)

invalidate_books_list(st, avail, fail) ==
    _delete_cache(st, avail, KEY_PREFIX_BOOKS_LIST, fail)

get_cached_book_detail(st, avail, book_id, fail) ==
    _get_cache(st, avail, DetailKey(book_id), fail)

set_cached_book_detail(st, avail, book_id, data, ttl, fail) ==
    _set_cache(st, avail, DetailKey(book_id), data,
               TtlOr(ttl, CACHE_TTL_BOOK_DETAIL), fail)

\* round(num / den, 2) in hundredths: Python rounds the exact quotient to
\* the nearest hundredth, a tie to the even one.
Round2(num, den) ==
    LET q == (100 * num) \div den
        r == (100 * num) % den
    IN  IF 2 * r < den THEN q
        ELSE IF 2 * r > den THEN q + 1
        ELSE IF q % 2 = 0 THEN q ELSE q + 1

\* Variant of the hit rate without the factor 100 (sensitivity of C7).
HitRateFraction(hits, total) == IF total > 0 THEN Round2(hits, total) ELSE 0

\* (hits / total * 100) if total > 0 else 0.0, rounded to two decimals; the
\* float is held in hundredths (6667 is 66.67).
HitRate(hits, total) == IF total > 0 THEN Round2(hits * 100, total) ELSE 0

\* Variant of the statistics that leaves the misses out of the total
\* (sensitivity of C8).
StatsOfHitsOnly(hits, misses) ==
    [kind |-> "dict", status |-> "available", hits |-> hits, misses |-> misses,
     total_requests |-> hits, hit_rate |-> HitRate(hits, hits)]

StatsOf(hits, misses) ==
    [kind |-> "dict", status |-> "available", hits |-> hits, misses |-> misses,
     total_requests |-> hits + misses, hit_rate |-> HitRate(hits, hits + misses)]

get_cache_stats(st, avail, fail) ==
    IF ~avail
    THEN [kind |-> "dict", status |-> "unavailable", hits |-> 0, misses |-> 0,
          hit_rate |-> 0]
    ELSE IF fail
    THEN [kind |-> "dict", status |-> "error", message |-> "Redis error"]
    ELSE StatsOf(Hits(st), Misses(st))

\* Variant of clear_all_cache without the availability test (sensitivity
\* of C22).
clear_all_cache_unguarded(st, avail, fail) ==
    IF fail
    THEN [ok |-> FALSE, store |-> st]
    ELSE [ok |-> TRUE, store |-> RedisFlushdb(st)]

clear_all_cache(st, avail, fail) ==
    IF ~avail \/ fail
    THEN [ok |-> FALSE, store |-> st]
    ELSE [ok |-> TRUE, store |-> RedisFlushdb(st)]

get_all_cache_keys(st, avail, fail) ==
    IF ~avail \/ fail THEN {} ELSE RedisKeys(st)

(***************************************************************************)
(* redis_config.py RedisClient.  outcome / fail say what the server does.  *)
(***************************************************************************)
Conn == "conn"

\* RedisClient.reconnect(): _create_connection() then ping().
reconnect(cl, outcome) ==
    CASE outcome = "ok"           -> [ok |-> TRUE, client |-> Conn, is_available |-> TRUE]
      [] outcome = "create_fails" -> [ok |-> FALSE, client |-> cl, is_available |-> FALSE]
      [] OTHER                    -> [ok |-> FALSE, client |-> Conn, is_available |-> FALSE]

\* Variant of health_check that marks the client available again when the
\* ping succeeds (sensitivity of C30).
health_check_rearming(avail, cl, fail) ==
    IF cl = None
    THEN [status |-> "unavailable", is_available |-> avail]
    ELSE IF fail
    THEN [status |-> "unhealthy", is_available |-> FALSE]
    ELSE [status |-> "healthy", is_available |-> TRUE]

\* RedisClient.health_check(): ping() and info().
health_check(avail, cl, fail) ==
    IF ~avail \/ cl = None
    THEN [status |-> "unavailable", is_available |-> avail]
    ELSE IF fail
    THEN [status |-> "unhealthy", is_available |-> FALSE]
    ELSE [status |-> "healthy", is_available |-> avail]

(***************************************************************************)
(* The books table read by GET /books (backend/books.py).                  *)
(***************************************************************************)
DbIds == {1}
Titles == {"t0", "t1"}

RECURSIVE RowsOf(_, _)
\* cursor.fetchall() as dicts, in id order.
RowsOf(table, ids) ==
    IF ids = {} THEN <<>>
    ELSE LET i == CHOOSE x \in ids : \A y \in ids : x <= y
         IN  <<[id |-> i, title |-> table[i]]>> \o RowsOf(table, ids \ {i})

SelectBooks(table) == RowsOf(table, DOMAIN table)

(***************************************************************************)
(* The request handlers, as functions of the state they read.              *)
(***************************************************************************)
ReadFails == {"no", "get", "incr"}

\* main.py recommend(book_id): GET /recommend/{book_id}.
\* Variant of recommend that stores its result before it looks at the
\* outcome of the computation (sensitivity of C12).
recommend_storing_first(st, avail, book_id, rf, sf) ==
    LET g == get_cached_recommendations(st, avail, book_id, rf)
        r == get_recommendations(book_id, DefaultN)
        result == RecResult(book_id, r.list)
        s == set_cached_recommendations(g.store, avail, book_id, result, NoTtl, sf)
    IN  IF Truthy(g.ret)
        THEN [status |-> 200, body |-> g.ret, store |-> g.store,
              computed |-> 0, read |-> g.read, fault |-> g.fault]
        ELSE IF r.err = "404"
        THEN [status |-> 404, body |-> ErrorBody("Book not found"),
              store |-> s.store, computed |-> 1, read |-> g.read, fault |-> g.fault]
        ELSE IF r.err # None
        THEN [status |-> 500, body |-> ErrorBody("Internal Server Error"),
              store |-> s.store, computed |-> 1, read |-> g.read, fault |-> g.fault]
        ELSE [status |-> 200, body |-> result, store |-> s.store,
              computed |-> 1, read |-> g.read, fault |-> g.fault \/ s.fault]

recommend(st, avail, book_id, rf, sf) ==
    LET g == get_cached_recommendations(st, avail, book_id, rf)
        r == get_recommendations(book_id, DefaultN)
        result == RecResult(book_id, r.list)
        s == set_cached_recommendations(g.store, avail, book_id, result, NoTtl, sf)
    IN  IF g.exc
        THEN [status |-> 500, body |-> ErrorBody("Internal Server Error"),
              store |-> g.store, computed |-> 0, read |-> g.read, fault |-> TRUE]
        ELSE IF Truthy(g.ret)
        THEN [status |-> 200, body |-> g.ret, store |-> g.store,
              computed |-> 0, read |-> g.read, fault |-> g.fault]
        ELSE IF r.err = "404"
        THEN [status |-> 404, body |-> ErrorBody("Book not found"),
              store |-> g.store, computed |-> 1, read |-> g.read, fault |-> g.fault]
        ELSE IF r.err # None
        THEN [status |-> 500, body |-> ErrorBody("Internal Server Error"),
              store |-> g.store, computed |-> 1, read |-> g.read, fault |-> g.fault]
        ELSE IF s.exc
        THEN [status |-> 500, body |-> ErrorBody("Internal Server Error"),
              store |-> s.store, computed |-> 1, read |-> g.read, fault |-> TRUE]
        ELSE [status |-> 200, body |-> result, store |-> s.store,
              computed |-> 1, read |-> g.read, fault |-> g.fault \/ s.fault]

\* books.py fetch_books(): GET /books.
fetch_books(st, avail, table, rf, sf) ==
    LET g == get_cached_books(st, avail, rf)
        result == PyList(SelectBooks(table))
        s == set_cached_books(g.store, avail, result, NoTtl, sf)
    IN  IF g.exc
        THEN [status |-> 500, body |-> ErrorBody("Internal Server Error"),
              store |-> g.store, computed |-> 0, read |-> g.read, fault |-> TRUE]
        ELSE IF Truthy(g.ret)
        THEN [status |-> 200, body |-> g.ret, store |-> g.store,
              computed |-> 0, read |-> g.read, fault |-> g.fault]
        ELSE IF s.exc
        THEN [status |-> 500, body |-> ErrorBody("Internal Server Error"),
              store |-> s.store, computed |-> 1, read |-> g.read, fault |-> TRUE]
        ELSE [status |-> 200, body |-> result, store |-> s.store,
              computed |-> 1, read |-> g.read, fault |-> g.fault \/ s.fault]

\* books.py delete_book(book_id): the DELETE is committed, then rowcount is
\* looked at; the HTTPException(404) raised inside the try is caught by
\* "except Exception" and re-raised as a 500.
delete_book(st, avail, table, book_id, fail) ==
    LET d == invalidate_books_list(st, avail, fail)
    IN  IF book_id \notin DOMAIN table
        THEN [status |-> 500, body |-> ErrorBody("404: Book not found"),
              store |-> st, table |-> table, fault |-> FALSE]
        ELSE [status |-> 200, body |-> Message("Book deleted successfully"),
              store |-> d.store,
              table |-> [i \in DOMAIN table \ {book_id} |-> table[i]],
              fault |-> d.fault]

\* books.py update_book(book_id, payload) with every required field given.
update_book(st, avail, table, book_id, title, fail) ==
    LET d == invalidate_books_list(st, avail, fail)
    IN  IF book_id \notin DOMAIN table
        THEN [status |-> 500, body |-> ErrorBody("404: Book not found"),
              store |-> st, table |-> table, fault |-> FALSE]
        ELSE [status |-> 200, body |-> Message("Book updated successfully"),
              store |-> d.store,
              table |-> [table EXCEPT ![book_id] = title],
              fault |-> d.fault]

\* cache_admin.py clear_cache(): POST /admin/cache/clear.
clear_cache(st, avail, fail) ==
    LET c == clear_all_cache(st, avail, fail)
    IN  IF c.ok
        THEN [status |-> 200, body |-> Message("Cache cleared successfully"),
              store |-> c.store]
        ELSE [status |-> 500, body |-> ErrorBody("Failed to clear cache"),
              store |-> c.store]

\* cache_admin.py list_cache_keys(): GET /admin/cache/keys.
list_cache_keys(st, avail, fail) ==
    LET keys == get_all_cache_keys(st, avail, fail)
    IN  [status |-> 200,
         body |-> [kind |-> "dict", total_keys |-> Cardinality(keys), keys |-> keys]]

\* cache_admin.py invalidate_book_cache(book_id): DELETE /admin/cache/book/{id}.
invalidate_book_cache(st, avail, book_id, fail) ==
    LET d == invalidate_recommendations(st, avail, book_id, fail)
    IN  IF d.ok
        THEN [status |-> 200, body |-> Message("Cache invalidated for book"),
              store |-> d.store]
        ELSE [status |-> 500, body |-> ErrorBody("Failed to invalidate cache"),
              store |-> d.store]

\* cache_admin.py invalidate_books_cache(): POST /admin/cache/invalidate/books.
invalidate_books_cache(st, avail, fail) ==
    LET d == invalidate_books_list(st, avail, fail)
    IN  IF d.ok
        THEN [status |-> 200, body |-> Message("Books list cache invalidated"),
              store |-> d.store]
        ELSE [status |-> 500, body |-> ErrorBody("Failed to invalidate cache"),
              store |-> d.store]

\* cache_admin.py reconnect_redis(): POST /admin/cache/reconnect.
reconnect_redis(cl, outcome) ==
    LET c == reconnect(cl, outcome)
    IN  IF c.ok
        THEN [status |-> 200, body |-> Message("Redis reconnected successfully"),
              client |-> c.client, is_available |-> c.is_available]
        ELSE [status |-> 500, body |-> ErrorBody("Failed to reconnect to Redis"),
              client |-> c.client, is_available |-> c.is_available]

(***************************************************************************)
(* The running service: its state and one action per operation.            *)
(***************************************************************************)
\* The index the service has loaded: rows 1, 2, 5 and 9 have the same vector.
MainIndex ==
    [p \in 1..MainRows |->
        [book_id |-> 100 + p,
         vec |-> IF p \in {1, 2, 5, 9} THEN <<1, 1>>
                 ELSE IF p % 2 = 1 THEN <<1, 0>> ELSE <<0, 1>>,
         ratings_count |-> (5 * p) % 13]]

\* An index of the same books that is smaller than DefaultN + 1 rows.
SmallIndex == [p \in 1..MaxBooks |-> MainIndex[p]]

AscRank(len) == [p \in 1..len |-> p]
DescRank(len) == [p \in 1..len |-> len + 1 - p]

\* The book ids requested: a book of the index, and an id that is in none.
RequestIds == {MainIndex[2].book_id, 0}

\* Steps of the simulated clock.
AdvanceSteps == {CACHE_TTL_BOOK_DETAIL}

NoCall == [book_id |-> 0, n |-> 0, out |-> [err |-> None, list |-> <<>>]]
NoOp == [op |-> "none", arg |-> 0, status |-> 0, body |-> PyNone,
         computed |-> 0, read |-> "none", fault |-> FALSE, gone |-> {}]
NoRun == [key |-> "", n |-> 0]

\* startup_event is over (or has not been entered): nothing is being warmed.
NotWarming == [state |-> "over", queue |-> <<>>, selected |-> <<>>, attempted |-> 0,
               computed |-> 0, writes |-> 0, faults |-> 0]

\* The workers that serve requests side by side, and a worker with none.
Workers == {"w1", "w2"}
Idle == [pc |-> "idle", book_id |-> 0, cached |-> PyNone, result |-> PyNone,
         read |-> "none", computed |-> 0, wrote |-> 0]
NoRequests == [w \in Workers |-> Idle]

\* What is recorded of an operation: its answer, how often it ran the
\* computation it caches, what its cache read was counted as, whether the
\* cache failed it, and the keys that left the database (to) during it.
Observed(op, arg, h, to) ==
    [op |-> op, arg |-> arg, status |-> h.status, body |-> h.body,
     computed |-> h.computed, read |-> h.read, fault |-> h.fault,
     gone |-> DOMAIN store \ DOMAIN to]

Answered(op, arg, status, body, fault, to) ==
    [op |-> op, arg |-> arg, status |-> status, body |-> body,
     computed |-> 0, read |-> "none", fault |-> fault,
     gone |-> DOMAIN store \ DOMAIN to]

\* The run of consecutive successful read-through requests of key, begun with
\* both counters cleared and key not cached.
RunAfter(key, h) ==
    IF h.status = 200 /\ ~h.fault
    THEN IF seq.key = key THEN [key |-> key, n |-> seq.n + 1]
         ELSE IF Hits(store) = 0 /\ Misses(store) = 0 /\ key \notin DOMAIN store
              THEN [key |-> key, n |-> 1]
              ELSE NoRun
    ELSE NoRun

CountersBelowCap == Hits(store) < MaxCount /\ Misses(store) < MaxCount

\* redis_client = RedisClient(): the connection is made and pinged, or the
\* service runs without cache.
InitClient ==
    \/ is_available = TRUE /\ client = Conn
    \/ is_available = FALSE /\ client = None

InitCache ==
    /\ InitClient
    /\ store = EmptyStore
    /\ db = [i \in DbIds |-> "t0"]
    /\ last = NoOp
    /\ seq = NoRun

\* The artefacts loaded: the main index, or one of fewer rows than a request
\* asks neighbours for; the model was fitted on the rows of the index.
LoadedIndexes == {MainIndex, SmallIndex}

InitIndex ==
    \E df \in LoadedIndexes :
        /\ books_df = df
        /\ knn_model \in {Fit(df, AscRank(Len(df))), Fit(df, DescRank(Len(df)))}

Init ==
    /\ InitIndex
    /\ recCall = NoCall
    /\ InitCache
    /\ warm = NotWarming
    /\ reqs = NoRequests
    /\ csv_rows = 0

Recommend ==
    \E b \in RequestIds, rf \in ReadFails, sf \in BOOLEAN :
        LET h == recommend(store, is_available, b, rf, sf)
        IN  /\ CountersBelowCap
            /\ store' = h.store
            /\ last' = Observed("recommend", b, h, h.store)
            /\ seq' = RunAfter(RecKey(b), h)
            /\ UNCHANGED <<indexVars, procVars, recCall, is_available, client, db>>

FetchBooks ==
    \E rf \in ReadFails, sf \in BOOLEAN :
        LET h == fetch_books(store, is_available, db, rf, sf)
        IN  /\ CountersBelowCap
            /\ store' = h.store
            /\ last' = Observed("fetch_books", 0, h, h.store)
            /\ seq' = RunAfter(KEY_PREFIX_BOOKS_LIST, h)
            /\ UNCHANGED <<indexVars, procVars, recCall, is_available, client, db>>

DeleteBook ==
    \E id \in DbIds, fail \in BOOLEAN :
        LET h == delete_book(store, is_available, db, id, fail)
        IN  /\ store' = h.store
            /\ db' = h.table
            /\ last' = Answered("delete_book", id, h.status, h.body, h.fault, h.store)
            /\ seq' = NoRun
            /\ UNCHANGED <<indexVars, procVars, recCall, is_available, client>>

UpdateBook ==
    \E id \in DbIds, title \in Titles, fail \in BOOLEAN :
        LET h == update_book(store, is_available, db, id, title, fail)
        IN  /\ store' = h.store
            /\ db' = h.table
            /\ last' = Answered("update_book", id, h.status, h.body, h.fault, h.store)
            /\ seq' = NoRun
            /\ UNCHANGED <<indexVars, procVars, recCall, is_available, client>>

ClearCache ==
    \E fail \in BOOLEAN :
        LET h == clear_cache(store, is_available, fail)
        IN  /\ store' = h.store
            /\ last' = Answered("clear_cache", 0, h.status, h.body, h.status # 200, h.store)
            /\ seq' = NoRun
            /\ UNCHANGED <<indexVars, procVars, recCall, is_available, client, db>>

ListCacheKeys ==
    \E fail \in BOOLEAN :
        LET h == list_cache_keys(store, is_available, fail)
        IN  /\ last' = Answered("list_cache_keys", 0, h.status, h.body,
                                ~is_available \/ fail, store)
            /\ seq' = NoRun
            /\ UNCHANGED <<indexVars, procVars, recCall, is_available, client, db, store>>

InvalidateBookCache ==
    \E b \in RequestIds, fail \in BOOLEAN :
        LET h == invalidate_book_cache(store, is_available, b, fail)
        IN  /\ store' = h.store
            /\ last' = Answered("invalidate_book_cache", b, h.status, h.body,
                                h.status # 200, h.store)
            /\ seq' = NoRun
            /\ UNCHANGED <<indexVars, procVars, recCall, is_available, client, db>>

InvalidateBooksCache ==
    \E fail \in BOOLEAN :
        LET h == invalidate_books_cache(store, is_available, fail)
        IN  /\ store' = h.store
            /\ last' = Answered("invalidate_books_cache", 0, h.status, h.body,
                                h.status # 200, h.store)
            /\ seq' = NoRun
            /\ UNCHANGED <<indexVars, procVars, recCall, is_available, client, db>>

ReconnectRedis ==
    \E outcome \in {"ok", "create_fails", "ping_fails"} :
        LET h == reconnect_redis(client, outcome)
        IN  /\ client' = h.client
            /\ is_available' = h.is_available
            /\ last' = Answered("reconnect_redis", 0, h.status, h.body, h.status # 200, store)
            /\ seq' = NoRun
            /\ UNCHANGED <<indexVars, procVars, recCall, db, store>>

\* main.py cache_statistics(): GET /cache/stats.
CacheStatistics ==
    \E fail \in BOOLEAN :
        /\ last' = Answered("cache_statistics", 0, 200,
                            get_cache_stats(store, is_available, fail),
                            ~is_available \/ fail, store)
        /\ seq' = NoRun
        /\ UNCHANGED <<indexVars, procVars, recCall, is_available, client, db, store>>

\* main.py redis_health_check(): GET /health/redis.
RedisHealthCheck ==
    \E fail \in BOOLEAN :
        LET h == health_check(is_available, client, fail)
        IN  /\ is_available' = h.is_available
            /\ last' = Answered("redis_health_check", 0, 200,
                                [kind |-> "dict", status |-> h.status],
                                h.status # "healthy", store)
            /\ seq' = NoRun
            /\ UNCHANGED <<indexVars, procVars, recCall, client, db, store>>

\* The clock of the Redis server advances.
Advance ==
    \E d \in AdvanceSteps :
        /\ store' = Elapse(store, d)
        /\ last' = Answered("advance", d, 0, PyNone, FALSE, Elapse(store, d))
        /\ seq' = IF seq.key \in DOMAIN store' THEN seq ELSE NoRun
        /\ UNCHANGED <<indexVars, procVars, recCall, is_available, client, db>>

(***************************************************************************)
(* cache_service.py called directly, as its unit tests call it: the        *)
(* setters with and without a ttl argument, and the book-detail functions   *)
(* (which no request handler calls).                                       *)
(***************************************************************************)
\* No ttl argument, an invalid one, and one below every default.
TtlArgs == {NoTtl, <<0>>, <<900>>}

\* The payloads of tests/test_cache_service.py.
TestRecommendations(b) == RecResult(b, <<>>)
TestBooks == PyList(<<[id |-> 1, title |-> "Book 1"]>>)
TestDetail(b) == [kind |-> "dict", id |-> b, title |-> "Book 1"]

Bool(b) == [kind |-> "bool", value |-> b]

SetCachedRecommendations ==
    \E b \in RequestIds \ {0}, ttl \in TtlArgs, fail \in BOOLEAN :
        LET h == set_cached_recommendations(store, is_available, b,
                                            TestRecommendations(b), ttl, fail)
        IN  /\ store' = h.store
            /\ last' = Answered("set_cached_recommendations", [book_id |-> b, ttl |-> ttl],
                                0, Bool(h.ok), h.fault, h.store)
            /\ seq' = NoRun
            /\ UNCHANGED <<indexVars, procVars, recCall, is_available, client, db>>

SetCachedBooks ==
    \E ttl \in TtlArgs, fail \in BOOLEAN :
        LET h == set_cached_books(store, is_available, TestBooks, ttl, fail)
        IN  /\ store' = h.store
            /\ last' = Answered("set_cached_books", [book_id |-> 0, ttl |-> ttl],
                                0, Bool(h.ok), h.fault, h.store)
            /\ seq' = NoRun
            /\ UNCHANGED <<indexVars, procVars, recCall, is_available, client, db>>

SetCachedBookDetail ==
    \E b \in RequestIds \ {0}, ttl \in TtlArgs, fail \in BOOLEAN :
        LET h == set_cached_book_detail(store, is_available, b, TestDetail(b), ttl, fail)
        IN  /\ store' = h.store
            /\ last' = Answered("set_cached_book_detail", [book_id |-> b, ttl |-> ttl],
                                0, Bool(h.ok), h.fault, h.store)
            /\ seq' = NoRun
            /\ UNCHANGED <<indexVars, procVars, recCall, is_available, client, db>>

GetCachedBookDetail ==
    \E b \in RequestIds \ {0}, fail \in ReadFails :
        LET h == get_cached_book_detail(store, is_available, b, fail)
        IN  /\ CountersBelowCap
            /\ store' = h.store
            /\ last' = [op |-> "get_cached_book_detail", arg |-> b, status |-> 0,
                        body |-> h.ret, computed |-> 0, read |-> h.read,
                        fault |-> h.fault, gone |-> {}]
            /\ seq' = NoRun
            /\ UNCHANGED <<indexVars, procVars, recCall, is_available, client, db>>

Next ==
    \/ Recommend
    \/ FetchBooks
    \/ DeleteBook
    \/ UpdateBook
    \/ ClearCache
    \/ ListCacheKeys
    \/ InvalidateBookCache
    \/ InvalidateBooksCache
    \/ ReconnectRedis
    \/ CacheStatistics
    \/ RedisHealthCheck
    \/ Advance

Spec == Init /\ [][Next]_vars

\* The cache functions called directly, beside the two read-through requests,
\* the admin clear and the clock.
NextApi ==
    \/ Recommend
    \/ FetchBooks
    \/ ClearCache
    \/ Advance
    \/ SetCachedRecommendations
    \/ SetCachedBooks
    \/ SetCachedBookDetail
    \/ GetCachedBookDetail

SpecApi == Init /\ [][NextApi]_vars

(***************************************************************************)
(* get_recommendations called directly, over every small index.            *)
(***************************************************************************)
InitRec ==
    /\ \E len \in 1..MaxBooks :
          /\ books_df \in Indexes(len)
          /\ knn_model \in {Fit(books_df, rank) : rank \in TieOrders(len)}
    /\ recCall = NoCall
    /\ is_available = FALSE
    /\ client = None
    /\ store = EmptyStore
    /\ db = [i \in DbIds |-> "t0"]
    /\ last = NoOp
    /\ seq = NoRun
    /\ warm = NotWarming
    /\ reqs = NoRequests
    /\ csv_rows = 0

\* A direct call get_recommendations(b, n); book id 0 is in no index.
CallGetRecommendations ==
    \E b \in BookIds(books_df) \cup {0}, n \in 1..MaxN :
        /\ recCall' = [book_id |-> b, n |-> n, out |-> get_recommendations(b, n)]
        /\ UNCHANGED <<indexVars, procVars, cacheVars>>

NextRec == CallGetRecommendations

SpecRec == InitRec /\ [][NextRec]_vars

(***************************************************************************)
(* Claims about get_recommendations (checked under SpecRec).               *)
(***************************************************************************)
Called == recCall.n > 0
CalledForIndexedBook == Called /\ recCall.book_id \in BookIds(books_df)
Returned == CalledForIndexedBook /\ recCall.out.err = None
OthersInIndex == Len(books_df) - 1

\* C1: for every book id B of the index and every n >= 1, the list returned by
\* get_recommendations(B, n) holds no entry whose book_id is B and has at most
\* n entries, whatever the index holds, other books with B's vector included.
C1_NeverSelfAtMostN ==
    Returned =>
        /\ \A i \in DOMAIN recCall.out.list :
              recCall.out.list[i].book_id # recCall.book_id
        /\ Len(recCall.out.list) <= recCall.n

\* C2: when the index holds m other books than B and m < n,
\* get_recommendations(B, n) succeeds and returns exactly m entries.
C2_FewerWhenCorpusSmaller ==
    (CalledForIndexedBook /\ OthersInIndex < recCall.n) =>
        /\ recCall.out.err = None
        /\ Len(recCall.out.list) = OthersInIndex

(***************************************************************************)
(* Claims about the cache-aside paths (checked under Spec).                *)
(***************************************************************************)
\* The requests that read through the cache, and the key each reads.
IsReadThrough(l) == l.op \in {"recommend", "fetch_books"}
ReadThroughKey(l) ==
    IF l.op = "recommend" THEN RecKey(l.arg) ELSE KEY_PREFIX_BOOKS_LIST

\* C3: with the backend available and responsive, after a first read-through
\* request (miss, compute, store) a second request for the same key, before
\* the TTL elapses and with no invalidate or clear between, returns exactly
\* the value the first stored and does not run the computation again; on
\* GET /recommend/{id} and on GET /books, for every value computed.
C3_SecondRequestServedFromCache ==
    [][ (/\ IsReadThrough(last) /\ ~last.fault /\ last.status = 200
         /\ last.read = "miss" /\ last.computed = 1
         /\ IsReadThrough(last') /\ ~last'.fault
         /\ ReadThroughKey(last') = ReadThroughKey(last)
         /\ ReadThroughKey(last') \in DOMAIN store)
        => (/\ last'.status = 200
            /\ last'.body = JsonLoads(store[ReadThroughKey(last')].val)
            /\ last'.computed = 0) ]_vars

(***************************************************************************)
(* C4 (checked under SpecApi).                                             *)
(***************************************************************************)
StatsKeys == {KEY_PREFIX_STATS_HITS, KEY_PREFIX_STATS_MISSES}
CacheKeys(st) == DOMAIN st \ StatsKeys

IsSetter(l) ==
    l.op \in {"set_cached_recommendations", "set_cached_books", "set_cached_book_detail"}

\* The key an operation writes, and the expiry its entry is to get.
WrittenKey(l) ==
    CASE l.op = "recommend"                  -> RecKey(l.arg)
      [] l.op = "set_cached_recommendations" -> RecKey(l.arg.book_id)
      [] l.op = "set_cached_book_detail"     -> DetailKey(l.arg.book_id)
      [] OTHER                               -> KEY_PREFIX_BOOKS_LIST

PolicyTtl(l) ==
    CASE l.op \in {"recommend", "set_cached_recommendations"} -> 3600
      [] l.op \in {"fetch_books", "set_cached_books"}         -> 300
      [] OTHER                                                -> 1800

ExpectedTtl(l) ==
    IF IsSetter(l) /\ l.arg.ttl # <<>> THEN l.arg.ttl[1] ELSE PolicyTtl(l)

\* No entry is held without an expiry, or beyond it.
C4_EveryEntryExpires ==
    \A k \in CacheKeys(store) :
        /\ store[k].ttl # NoExpiry
        /\ store[k].age < store[k].ttl

\* An entry written by a step gets the default of its namespace, or the ttl
\* passed; a setter that reports success has written it.
C4_WrittenWithTtl ==
    (IsReadThrough(last') \/ IsSetter(last')) =>
        LET k == WrittenKey(last')
        IN  /\ (k \in DOMAIN store' /\ (k \notin DOMAIN store \/ store'[k] # store[k]))
                  => (store'[k].ttl = ExpectedTtl(last') /\ store'[k].age = 0)
            /\ (IsSetter(last') /\ last'.body.value)
                  => (k \in DOMAIN store' /\ store'[k].ttl = ExpectedTtl(last')
                      /\ store'[k].age = 0)

\* When the clock advances, the entries whose ttl has elapsed are gone.
C4_GoneOnceElapsed ==
    last'.op = "advance" =>
        \A k \in CacheKeys(store) :
            store[k].age + last'.arg >= store[k].ttl
                => (k \notin DOMAIN store' /\ k \in last'.gone)

\* A request for a key whose entry has just expired is a miss and computes.
C4_ReadAfterExpiryMisses ==
    (/\ last.op = "advance"
     /\ IsReadThrough(last') /\ ~last'.fault
     /\ ReadThroughKey(last') \in last.gone)
        => (last'.read = "miss" /\ last'.computed = 1)

\* C4: every cache entry is written with a time-to-live: 3600 s for a
\* recommendation entry, 300 s for the book list and 1800 s for a book detail
\* when no ttl is passed, the ttl passed otherwise; once that many seconds have
\* elapsed since the write, a read of the key is a miss and the computation
\* runs again; no entry is stored without an expiry.
C4_EntriesExpireByPolicy ==
    /\ []C4_EveryEntryExpires
    /\ [][C4_WrittenWithTtl /\ C4_GoneOnceElapsed /\ C4_ReadAfterExpiryMisses]_vars

\* A recommendation entry has outlived its ttl on the simulated clock.
C4_Witness ==
    /\ last.op = "advance"
    /\ \E b \in BookIds(books_df) : RecKey(b) \in last.gone

(***************************************************************************)
(* C5 - C10 (checked under Spec).                                          *)
(***************************************************************************)
\* The operations that call invalidate_recommendations / invalidate_books_list,
\* when the deletion went through.
Invalidated(l) ==
    \/ l.op \in {"invalidate_book_cache", "invalidate_books_cache"} /\ l.status = 200
    \/ l.op \in {"delete_book", "update_book"} /\ l.status = 200 /\ ~l.fault

InvalidatedKey(l) ==
    IF l.op = "invalidate_book_cache" THEN RecKey(l.arg) ELSE KEY_PREFIX_BOOKS_LIST

\* The counter a key of the database holds (none held: 0).
StoredCount(st, key) == IF key \in DOMAIN st THEN st[key].val.json ELSE 0

\* C5: with the backend available, an invalidation followed immediately by a
\* read of the same key behaves as a miss: the read returns nothing, the miss
\* counter goes up by one and the computation runs, whatever TTL was left.
C5_ReadAfterInvalidateMisses ==
    [][ (/\ Invalidated(last)
         /\ IsReadThrough(last') /\ ~last'.fault
         /\ ReadThroughKey(last') = InvalidatedKey(last))
        => (/\ last'.read = "miss"
            /\ last'.computed = 1
            /\ StoredCount(store', KEY_PREFIX_STATS_MISSES)
                 = StoredCount(store, KEY_PREFIX_STATS_MISSES) + 1
            /\ StoredCount(store', KEY_PREFIX_STATS_HITS)
                 = StoredCount(store, KEY_PREFIX_STATS_HITS)) ]_vars

\* An entry with TTL left has just been invalidated.
C5_Witness ==
    /\ Invalidated(last)
    /\ InvalidatedKey(last) \in last.gone
    /\ InvalidatedKey(last) \notin DOMAIN store

\* C6: from cleared counters and an uncached key, N sequential read-through
\* requests for that key (backend available, no expiry, no invalidation)
\* leave misses = 1 and hits = N - 1.
C6_OneMissThenHits ==
    seq.n >= 1 =>
        /\ StoredCount(store, KEY_PREFIX_STATS_MISSES) = 1
        /\ StoredCount(store, KEY_PREFIX_STATS_HITS) = seq.n - 1

C6_Witness == seq.n >= 3 /\ IsReadThrough(last) /\ ReadThroughKey(last) = seq.key

IsStats(l) == l.op = "cache_statistics"

Abs(x) == IF x < 0 THEN 0 - x ELSE x

\* rate (in hundredths) is the quotient num / den rounded to the hundredth.
NearestHundredth(rate, num, den) == 2 * Abs(rate * den - 100 * num) <= den

\* C7 as stated: hit_rate is hits / (hits + misses), a fraction between 0 and
\* 1, and 0 when hits and misses are both zero.
C7_HitRateIsFraction ==
    (IsStats(last) /\ last.body.status = "available") =>
        LET b == last.body
        IN  /\ b.hit_rate >= 0 /\ b.hit_rate <= 100
            /\ b.hits + b.misses = 0 => b.hit_rate = 0
            /\ b.hits + b.misses > 0
                 => NearestHundredth(b.hit_rate, b.hits, b.hits + b.misses)

\* C7, amended: hit_rate is the percentage 100 * hits / (hits + misses),
\* between 0 and 100, rounded to two decimals, and 0 when both are zero.
C7_HitRateIsPercentage ==
    (IsStats(last) /\ last.body.status = "available") =>
        LET b == last.body
        IN  /\ b.hit_rate >= 0 /\ b.hit_rate <= 100 * 100
            /\ b.hits + b.misses = 0 => b.hit_rate = 0
            /\ b.hits + b.misses > 0
                 => NearestHundredth(b.hit_rate, 100 * b.hits, b.hits + b.misses)

C7_Witness ==
    /\ IsStats(last) /\ last.body.status = "available"
    /\ last.body.hits >= 1 /\ last.body.misses >= 1

\* C8: with the backend available, get_cache_stats returns status
\* 'available', the stored hits and misses, total_requests = hits + misses
\* and hit_rate = 100 * hits / total_requests rounded to two decimals
\* (hits = 100, misses = 50: total_requests = 150, hit_rate = 66.67).
C8_StatsWhenAvailable ==
    /\ (IsStats(last) /\ ~last.fault) =>
          /\ last.body.status = "available"
          /\ last.body.hits = StoredCount(store, KEY_PREFIX_STATS_HITS)
          /\ last.body.misses = StoredCount(store, KEY_PREFIX_STATS_MISSES)
          /\ last.body.total_requests = last.body.hits + last.body.misses
          /\ last.body.total_requests > 0 =>
                NearestHundredth(last.body.hit_rate, 100 * last.body.hits,
                                 last.body.total_requests)
    /\ StatsOf(100, 50).total_requests = 150
    /\ StatsOf(100, 50).hit_rate = 6667

C8_Witness ==
    /\ IsStats(last) /\ ~last.fault
    /\ last.body.hits >= 1 /\ last.body.misses >= 1
    /\ last.body.hits # last.body.misses

\* What GET /recommend/{b} answers when it computes directly.
DirectAnswer(b) ==
    LET r == get_recommendations(b, DefaultN)
    IN  IF r.err = None THEN [status |-> 200, body |-> RecResult(b, r.list)]
        ELSE IF r.err = "404" THEN [status |-> 404, body |-> ErrorBody("Book not found")]
        ELSE [status |-> 500, body |-> ErrorBody("Internal Server Error")]

\* C9: a cache failure is never visible to the recommendation caller: for a
\* book of the index, with the client marked unavailable or any of get, incr
\* and setex raising, GET /recommend/B answers the directly computed result;
\* _get_cache returns None and _set_cache returns False instead of raising.
C9_CacheFailureInvisible ==
    /\ (last.op = "recommend" /\ last.fault /\ last.arg \in BookIds(books_df)) =>
          /\ last.status = DirectAnswer(last.arg).status
          /\ last.body = DirectAnswer(last.arg).body
    /\ \A b \in RequestIds :
          /\ \A rf \in ReadFails :
                (~is_available \/ rf # "no") =>
                    LET g == _get_cache(store, is_available, RecKey(b), rf)
                    IN  g.ret = PyNone /\ ~g.exc
          /\ \A sf \in BOOLEAN :
                (~is_available \/ sf) =>
                    LET w == _set_cache(store, is_available, RecKey(b),
                                        RecResult(b, <<>>), 3600, sf)
                    IN  ~w.ok /\ ~w.exc

\* A command raised on a client marked available, and the request was served.
C9_Witness ==
    /\ last.op = "recommend" /\ last.fault /\ is_available
    /\ last.arg \in BookIds(books_df)
    /\ last.status = 200

\* C10: whenever the backing store cannot be reached (client marked
\* unavailable, or marked available with its commands failing),
\* get_cache_stats returns status 'unavailable' with hits = 0 and misses = 0,
\* and never omits the hits and misses fields.
C10_StatsWhenUnreachable ==
    (IsStats(last) /\ last.fault) =>
        /\ last.body.status = "unavailable"
        /\ last.body.hits = 0
        /\ last.body.misses = 0

(***************************************************************************)
(* C11 - C14 (checked under Spec).                                         *)
(***************************************************************************)
CounterSum(st) ==
    StoredCount(st, KEY_PREFIX_STATS_HITS) + StoredCount(st, KEY_PREFIX_STATS_MISSES)

\* C11: every cache read attempt made by a request increments exactly one of
\* the two counters by exactly one, whatever the outcome of the computation
\* that follows (a 404 included); a read attempted while the cache is
\* unavailable or erroring increments the miss counter.
C11_EveryReadCounted ==
    [][ IsReadThrough(last') =>
          /\ CounterSum(store') = CounterSum(store) + 1
          /\ last'.fault =>
                StoredCount(store', KEY_PREFIX_STATS_MISSES)
                  = StoredCount(store, KEY_PREFIX_STATS_MISSES) + 1 ]_vars

\* The cache entries of a database: everything but the two counters.
CacheEntries(st) == [k \in CacheKeys(st) |-> st[k]]

ComputeFailed(l) == l.op = "recommend" /\ l.computed = 1 /\ l.status # 200

\* C12: a recommendation request whose computation fails (book id absent
\* from the index: 404; any other compute error: server error) fails with
\* that error and writes nothing to the cache: the entries other than the
\* counters are the same before and after it, and a request for an unknown id
\* is never served from the cache.
C12_FailedComputeWritesNothing ==
    [][ /\ ComputeFailed(last') =>
              /\ last'.status = (IF last'.arg \in BookIds(books_df) THEN 500 ELSE 404)
              /\ CacheEntries(store') = CacheEntries(store)
        /\ (last'.op = "recommend" /\ last'.arg \notin BookIds(books_df)) =>
              /\ last'.read # "hit"
              /\ last'.status = 404 ]_vars

\* A computation failed with the cache available and holding entries.
C12_Witness ==
    /\ ComputeFailed(last) /\ ~last.fault /\ last.read = "miss"
    /\ CacheKeys(store) # {}

Cleared(l) == l.op = "clear_cache" /\ l.status = 200

CounterLowered(st, to) ==
    \E c \in StatsKeys : c \in DOMAIN st /\ (c \notin DOMAIN to \/ to[c].val.json < st[c].val.json)

\* C13: a successful clear_all_cache removes every cache entry of every
\* namespace and resets both counters: a stats call right after it reports
\* hits = 0, misses = 0 and hit_rate = 0.0, and a read of a key cached before
\* is a miss; no operation resets the counters alone, or one of them.
C13_ClearWipesEntriesAndCounters ==
    [][ /\ Cleared(last') => (DOMAIN store' = {} /\ last'.gone = DOMAIN store)
        /\ (Cleared(last) /\ IsStats(last') /\ ~last'.fault) =>
              /\ last'.body.hits = 0 /\ last'.body.misses = 0
              /\ last'.body.hit_rate = 0
        /\ (Cleared(last) /\ IsReadThrough(last') /\ ~last'.fault) =>
              last'.read = "miss"
        /\ CounterLowered(store, store') => (Cleared(last') /\ DOMAIN store' = {}) ]_vars

\* A clear removed a recommendation entry and both counters.
C13_Witness ==
    /\ Cleared(last)
    /\ StatsKeys \subseteq last.gone
    /\ \E b \in BookIds(books_df) : RecKey(b) \in last.gone

IsInvalidation(l) == l.op \in {"invalidate_book_cache", "invalidate_books_cache"}

\* C14: invalidation is unconditional and idempotent: invalidating an absent
\* key is no error (it reports success exactly as for a present key),
\* invalidating twice leaves the cache as invalidating once does, and
\* invalidation never changes the hit and miss counters.
C14_InvalidationIdempotent ==
    /\ [][ IsInvalidation(last') =>
             /\ ~last'.fault =>
                   /\ last'.status = 200
                   /\ last'.body = (IF last'.op = "invalidate_book_cache"
                                    THEN invalidate_book_cache(EmptyStore, TRUE, last'.arg, FALSE).body
                                    ELSE invalidate_books_cache(EmptyStore, TRUE, FALSE).body)
                   /\ store' = [k \in DOMAIN store \ {InvalidatedKey(last')} |-> store[k]]
             /\ \A c \in StatsKeys :
                   /\ (c \in DOMAIN store') = (c \in DOMAIN store)
                   /\ StoredCount(store', c) = StoredCount(store, c) ]_vars
    /\ [](\A b \in RequestIds, f2 \in BOOLEAN :
             LET once == invalidate_book_cache(store, is_available, b, FALSE)
                 twice == invalidate_book_cache(once.store, is_available, b, f2)
                 list1 == invalidate_books_cache(store, is_available, FALSE)
                 list2 == invalidate_books_cache(list1.store, is_available, f2)
             IN  /\ twice.store = once.store
                 /\ list2.store = list1.store
                 /\ (is_available /\ ~f2) =>
                       (twice.status = once.status /\ twice.body = once.body
                        /\ list2.status = list1.status /\ list2.body = list1.body))

\* An invalidation of a key that was not cached has reported success.
C14_Witness ==
    /\ IsInvalidation(last) /\ last.status = 200
    /\ last.gone = {}
    /\ CacheKeys(store) # {}
    /\ StatsKeys \subseteq DOMAIN store

(***************************************************************************)
(* main.py startup_event: cache warming, one step per book, run before the *)
(* service takes requests.                                                 *)
(***************************************************************************)
\* The rows that come before row p by descending ratings_count, the earlier
\* row first among equals.
RowsAbove(df, p) ==
    {r \in DOMAIN df :
        \/ df[r].ratings_count > df[p].ratings_count
        \/ df[r].ratings_count = df[p].ratings_count /\ r < p}

\* The rows by descending ratings_count.
LargestFirst(df) ==
    [i \in 1..Len(df) |-> CHOOSE p \in DOMAIN df : Cardinality(RowsAbove(df, p)) = i - 1]

\* books_df.nlargest(k, 'ratings_count')
nlargest(df, k) ==
    SubSeq(LargestFirst(df), 1, IF k < Len(df) THEN k ELSE Len(df))

\* The book ids startup_event iterates over.
popular_books(df) ==
    LET rows == nlargest(df, WarmTopK)
    IN  [i \in 1..Len(rows) |-> df[rows[i]].book_id]

\* Variant of warm_book without the try/except around one book (sensitivity
\* of C15).
warm_book_unguarded(st, avail, book_id, sf) ==
    LET r == get_recommendations(book_id, DefaultN)
        result == RecResult(book_id, r.list)
        s == set_cached_recommendations(st, avail, book_id, result, NoTtl, sf)
    IN  IF r.err # None
        THEN [store |-> st, computed |-> 1, writes |-> 0, failed |-> TRUE, raised |-> TRUE]
        ELSE [store |-> s.store, computed |-> 1, writes |-> 1, failed |-> ~s.ok,
              raised |-> ~s.ok]

\* Variant of warm_book that warms a shorter list than a request computes
\* (sensitivity of C32).
warm_book_shorter(st, avail, book_id, sf) ==
    LET r == get_recommendations(book_id, DefaultN - 1)
        result == RecResult(book_id, r.list)
        s == set_cached_recommendations(st, avail, book_id, result, NoTtl, sf)
    IN  IF r.err # None
        THEN [store |-> st, computed |-> 1, writes |-> 0, failed |-> TRUE, raised |-> FALSE]
        ELSE [store |-> s.store, computed |-> 1, writes |-> 1, failed |-> ~s.ok,
              raised |-> s.exc]

\* The body of the loop of startup_event for one book: an exception of
\* get_recommendations is caught and logged; set_cached_recommendations
\* answers False when the write fails, which is not looked at.
warm_book(st, avail, book_id, sf) ==
    LET r == get_recommendations(book_id, DefaultN)
        result == RecResult(book_id, r.list)
        s == set_cached_recommendations(st, avail, book_id, result, NoTtl, sf)
    IN  IF r.err # None
        THEN [store |-> st, computed |-> 1, writes |-> 0, failed |-> TRUE, raised |-> FALSE]
        ELSE [store |-> s.store, computed |-> 1, writes |-> 1, failed |-> ~s.ok,
              raised |-> s.exc]

Starting == [NotWarming EXCEPT !.state = "start"]
StartupOver == warm.state \in {"done", "skipped", "failed"}

\* if redis_client.is_available: select the popular books; else: skip.
StartupBegin ==
    /\ warm.state = "start"
    /\ warm' = IF is_available
               THEN [warm EXCEPT !.state = "running", !.queue = popular_books(books_df),
                                 !.selected = popular_books(books_df)]
               ELSE [warm EXCEPT !.state = "skipped"]
    /\ UNCHANGED <<indexVars, recCall, cacheVars, reqs, csv_rows>>

\* One iteration of the loop; an exception that leaves the iteration is
\* caught by the outer try, which abandons the loop.
WarmBook ==
    /\ warm.state = "running" /\ warm.queue # <<>>
    /\ \E sf \in BOOLEAN :
          /\ sf => warm.faults < MaxWarmFaults
          /\ LET h == warm_book(store, is_available, Head(warm.queue), sf)
             IN  /\ store' = h.store
                 /\ warm' = [warm EXCEPT
                                !.state = IF h.raised THEN "failed" ELSE "running",
                                !.queue = Tail(warm.queue),
                                !.attempted = @ + 1,
                                !.computed = @ + h.computed,
                                !.writes = @ + h.writes,
                                !.faults = @ + (IF sf THEN 1 ELSE 0)]
    /\ UNCHANGED <<indexVars, recCall, is_available, client, db, last, seq, reqs, csv_rows>>

\* The loop is through: "Cache warming completed".
StartupEnd ==
    /\ warm.state = "running" /\ warm.queue = <<>>
    /\ warm' = [warm EXCEPT !.state = "done"]
    /\ UNCHANGED <<indexVars, recCall, cacheVars, reqs, csv_rows>>

Startup == StartupBegin \/ WarmBook \/ StartupEnd

\* Requests are served once startup is over.
ServeRecommend == StartupOver /\ Recommend
ServeReconnect == StartupOver /\ ReconnectRedis

InitWarm ==
    /\ InitIndex
    /\ recCall = NoCall
    /\ InitCache
    /\ warm = Starting
    /\ reqs = NoRequests
    /\ csv_rows = 0

NextWarm ==
    \/ StartupBegin
    \/ WarmBook
    \/ StartupEnd
    \/ ServeRecommend
    \/ ServeReconnect

\* The startup handler is run to its end by the server before it serves.
SpecWarm == InitWarm /\ [][NextWarm]_vars /\ WF_vars(Startup)

(***************************************************************************)
(* C15, C16 (checked under SpecWarm).                                      *)
(***************************************************************************)
\* C15: cache warming at startup always terminates and isolates failures: a
\* failure (compute error or cache-write failure) for one selected book is
\* skipped and every remaining selected book is still attempted; no failure
\* leaves the startup handler; with the backend unavailable at startup no
\* computation and no cache write is made, and warming is not retried later.
C15_WarmingTerminatesIsolated ==
    /\ <>StartupOver
    /\ [](warm.state # "failed")
    /\ [](warm.state = "done" =>
             /\ warm.attempted = Len(warm.selected)
             /\ warm.computed = Len(warm.selected))
    /\ [](warm.state = "skipped" =>
             (warm.attempted = 0 /\ warm.computed = 0 /\ warm.writes = 0))
    /\ [][ /\ (warm.state = "running" /\ warm.queue # <<>> /\ warm' # warm) =>
                 (warm'.state = "running" /\ warm'.queue = Tail(warm.queue))
           /\ (warm.state = "start" /\ ~is_available) =>
                 (warm'.state = "skipped" /\ store' = store)
           /\ StartupOver => warm' = warm ]_vars

\* Warming went through all ten books although a cache write failed and was
\* skipped, and the book after it was cached.
C15_Witness ==
    /\ warm.state = "done"
    /\ warm.faults >= 1
    /\ warm.attempted = WarmTopK
    /\ warm.writes = WarmTopK
    /\ RecKey(warm.selected[WarmTopK]) \in DOMAIN store

\* The (up to) ten books with the largest ratings_count.
MostRated(df) ==
    {df[p].book_id : p \in {q \in DOMAIN df :
        Cardinality({r \in DOMAIN df :
            \/ df[r].ratings_count > df[q].ratings_count
            \/ df[r].ratings_count = df[q].ratings_count /\ r < q}) < WarmTopK}}

\* Warming has just completed against a backend that took every write.
WarmedClean ==
    /\ warm.state = "done" /\ warm.faults = 0
    /\ is_available /\ last = NoOp

\* C16: after warming completes with the backend available, the cache holds a
\* recommendation entry for exactly the (up to) 10 books with the largest
\* ratings_count, each identical (key, payload, default TTL) to the entry a
\* live GET /recommend/{id} miss would have stored.
C16_WarmedLikeLiveTraffic ==
    WarmedClean =>
        /\ CacheKeys(store) = {RecKey(b) : b \in MostRated(books_df)}
        /\ \A b \in MostRated(books_df) :
              LET live == recommend(EmptyStore, TRUE, b, "no", FALSE).store
              IN  /\ RecKey(b) \in DOMAIN live
                  /\ RecKey(b) \in DOMAIN store
                  /\ store[RecKey(b)] = live[RecKey(b)]

SharedId == MainIndex[2].book_id

Request(b) == [Idle EXCEPT !.pc = "get", !.book_id = b]

\* Variant of compute_on_miss that looks at the cache again and computes
\* only if the entry is still missing (sensitivity of C19).
compute_on_miss_rechecking(st, r) ==
    IF RecKey(r.book_id) \in DOMAIN st
    THEN [r EXCEPT !.pc = "respond", !.result = JsonLoads(st[RecKey(r.book_id)].val)]
    ELSE LET c == get_recommendations(r.book_id, DefaultN)
         IN  IF c.err # None
             THEN [r EXCEPT !.pc = "respond", !.result = ErrorBody("compute failed"),
                            !.computed = 1]
             ELSE [r EXCEPT !.pc = "set", !.result = RecResult(r.book_id, c.list),
                            !.computed = 1]

\* recommendations = get_recommendations(book_id); result = {...}
compute_on_miss(st, r) ==
    LET c == get_recommendations(r.book_id, DefaultN)
    IN  IF c.err # None
        THEN [r EXCEPT !.pc = "respond", !.result = ErrorBody("compute failed"),
                       !.computed = 1]
        ELSE [r EXCEPT !.pc = "set", !.result = RecResult(r.book_id, c.list),
                       !.computed = 1]

\* A request for the shared book arrives at an idle worker.
Begin(w) ==
    /\ reqs[w].pc = "idle"
    /\ CountersBelowCap
    /\ reqs' = [reqs EXCEPT ![w] = Request(SharedId)]
    /\ UNCHANGED <<indexVars, warm, csv_rows, recCall, cacheVars>>

\* _get_cache: data = redis_client.client.get(key)
CacheGet(w) ==
    /\ reqs[w].pc = "get"
    /\ reqs' = [reqs EXCEPT ![w] = [@ EXCEPT !.pc = "count",
                       !.cached = RedisGet(store, RecKey(reqs[w].book_id))]]
    /\ UNCHANGED <<indexVars, warm, csv_rows, recCall, cacheVars>>

\* _get_cache: if data: incr(hits), json.loads(data); else: incr(misses);
\* recommend: if cached_result: return it.
CacheCount(w) ==
    /\ reqs[w].pc = "count"
    /\ LET r == reqs[w]
           hit == Truthy(r.cached)
           value == IF hit THEN JsonLoads(r.cached) ELSE PyNone
       IN  /\ store' = RedisIncr(store, IF hit THEN KEY_PREFIX_STATS_HITS
                                               ELSE KEY_PREFIX_STATS_MISSES)
           /\ reqs' = [reqs EXCEPT ![w] =
                         IF Truthy(value)
                         THEN [r EXCEPT !.pc = "respond", !.result = value, !.read = "hit"]
                         ELSE [r EXCEPT !.pc = "compute",
                                        !.read = IF hit THEN "hit" ELSE "miss"]]
    /\ UNCHANGED <<indexVars, warm, csv_rows, recCall, is_available, client, db, last, seq>>

Compute(w) ==
    /\ reqs[w].pc = "compute"
    /\ reqs' = [reqs EXCEPT ![w] = compute_on_miss(store, reqs[w])]
    /\ UNCHANGED <<indexVars, warm, csv_rows, recCall, cacheVars>>

\* set_cached_recommendations(book_id, result)
CacheSet(w) ==
    /\ reqs[w].pc = "set"
    /\ LET r == reqs[w]
           s == set_cached_recommendations(store, is_available, r.book_id, r.result,
                                           NoTtl, FALSE)
       IN  /\ store' = s.store
           /\ reqs' = [reqs EXCEPT ![w] = [r EXCEPT !.pc = "respond", !.wrote = 1]]
    /\ UNCHANGED <<indexVars, warm, csv_rows, recCall, is_available, client, db, last, seq>>

\* return result (or cached_result)
Respond(w) ==
    /\ reqs[w].pc = "respond"
    /\ LET r == reqs[w]
       IN  last' = [op |-> "recommend", arg |-> r.book_id,
                    status |-> IF r.result.kind = "error" THEN 500 ELSE 200,
                    body |-> r.result, computed |-> r.computed, read |-> r.read,
                    fault |-> FALSE, gone |-> {}]
    /\ reqs' = [reqs EXCEPT ![w] = Idle]
    /\ seq' = NoRun
    /\ UNCHANGED <<indexVars, warm, csv_rows, recCall, is_available, client, store, db>>

\* The startup of another worker process warms the shared book meanwhile.
WarmShared ==
    /\ store' = warm_book(store, is_available, SharedId, FALSE).store
    /\ UNCHANGED <<indexVars, procVars, recCall, is_available, client, db, last, seq>>

InitConc ==
    /\ books_df = MainIndex
    /\ knn_model \in {Fit(MainIndex, AscRank(MainRows)), Fit(MainIndex, DescRank(MainRows))}
    /\ recCall = NoCall
    /\ is_available = TRUE /\ client = Conn
    /\ store = EmptyStore
    /\ db = [i \in DbIds |-> "t0"]
    /\ last = NoOp
    /\ seq = NoRun
    /\ warm = NotWarming
    /\ reqs = NoRequests
    /\ csv_rows = 0

NextConc ==
    \/ \E w \in Workers : Begin(w)
    \/ \E w \in Workers : CacheGet(w)
    \/ \E w \in Workers : CacheCount(w)
    \/ \E w \in Workers : Compute(w)
    \/ \E w \in Workers : CacheSet(w)
    \/ \E w \in Workers : Respond(w)
    \/ WarmShared
    \/ InvalidateBookCache
    \/ ClearCache

SpecConc == InitConc /\ [][NextConc]_vars

(***************************************************************************)
(* C18, C19 (checked under SpecConc).                                      *)
(***************************************************************************)
\* The complete result of one computation for book b.
CompleteResult(b) == RecResult(b, get_recommendations(b, DefaultN).list)

\* C18: under any interleaving of concurrent recommendation requests,
\* warming, invalidations and clears for the same key, every value returned
\* to a caller for book B is the complete result {book_id: B,
\* recommendations: <full list>} of one computation for B: no reader sees a
\* partially written entry or a mixture of two writes.
C18_ReadersSeeCompleteResults ==
    /\ \A w \in Workers :
          /\ reqs[w].pc = "respond" => reqs[w].result = CompleteResult(reqs[w].book_id)
          /\ reqs[w].pc = "count" =>
                reqs[w].cached \in {PyNone, JsonDumps(CompleteResult(reqs[w].book_id))}
    /\ (last.op = "recommend" /\ last.status = 200) => last.body = CompleteResult(last.arg)
    /\ RecKey(SharedId) \in DOMAIN store =>
          JsonLoads(store[RecKey(SharedId)].val) = CompleteResult(SharedId)

\* One worker answers from the cache while the other, which computed, is
\* writing the same key.
C18_Witness ==
    \E w, v \in Workers :
        /\ w # v
        /\ reqs[w].pc = "respond" /\ reqs[w].read = "hit"
        /\ reqs[v].pc = "set" /\ reqs[v].computed = 1

\* C19: there is no per-key mutual exclusion: with two concurrent requests
\* for the same uncached key both can observe a miss and both run the
\* computation (two computations, two misses, two writes of the key) before
\* either write lands; a request that has missed computes and writes
\* whatever the other request does.
C19_NoSingleFlight ==
    \A w \in Workers :
        /\ (reqs[w].read = "miss" /\ reqs[w].pc \in {"set", "respond"}) =>
              reqs[w].computed = 1
        /\ (reqs[w].read = "miss" /\ reqs[w].pc = "respond"
               /\ reqs[w].result.kind # "error") => reqs[w].wrote = 1
        /\ reqs[w].pc = "compute" => ENABLED Compute(w)

\* Both requests have missed and computed, and neither has written yet.
C19_Witness ==
    /\ \A w \in Workers :
          /\ reqs[w].pc = "set" /\ reqs[w].read = "miss" /\ reqs[w].computed = 1
          /\ reqs[w].book_id = SharedId
    /\ RecKey(SharedId) \notin DOMAIN store
    /\ StoredCount(store, KEY_PREFIX_STATS_MISSES) = 2

(***************************************************************************)
(* backend/books.py: the catalog endpoints together.                       *)
(***************************************************************************)
\* books.py add_book(book): a payload lacking a required field is refused;
\* otherwise one row is appended to books.csv.  The cache is not called.
add_book(rows, complete) ==
    IF ~complete
    THEN [status |-> 400, body |-> ErrorBody("Missing field"), rows |-> rows]
    ELSE [status |-> 200, body |-> Message("Book processed for ML CSV"),
          rows |-> rows + 1]

AddBook ==
    \E complete \in BOOLEAN :
        LET h == add_book(csv_rows, complete)
        IN  /\ h.rows <= MaxCsvRows
            /\ csv_rows' = h.rows
            /\ last' = Answered("add_book", 0, h.status, h.body, FALSE, store)
            /\ seq' = NoRun
            /\ UNCHANGED <<indexVars, warm, reqs, recCall, is_available, client, store, db>>

NextCatalog ==
    \/ AddBook
    \/ DeleteBook
    \/ UpdateBook
    \/ FetchBooks
    \/ Recommend
    \/ Advance

SpecCatalog == Init /\ [][NextCatalog]_vars

(***************************************************************************)
(* C20 (checked under SpecCatalog).                                        *)
(***************************************************************************)
CatalogMutated(l) ==
    l.op \in {"add_book", "delete_book", "update_book"} /\ l.status = 200

RecommendationEntries(st) ==
    [k \in {RecKey(b) : b \in RequestIds} \cap DOMAIN st |-> st[k]]

\* C20: every successful catalog mutation (a book added, edited or deleted)
\* drops the book-list snapshot before its response is returned, and no
\* catalog mutation touches a per-book recommendation entry or the counters.
C20_MutationDropsSnapshot ==
    [][ /\ CatalogMutated(last') => KEY_PREFIX_BOOKS_LIST \notin DOMAIN store'
        /\ last'.op \in {"add_book", "delete_book", "update_book"} =>
              /\ RecommendationEntries(store') = RecommendationEntries(store)
              /\ \A c \in StatsKeys :
                    /\ (c \in DOMAIN store') = (c \in DOMAIN store)
                    /\ StoredCount(store', c) = StoredCount(store, c) ]_vars

(***************************************************************************)
(* cache_service.py over the values and the stored texts json handles and  *)
(* does not handle.                                                        *)
(***************************************************************************)
\* A book row with one more column, of a type the database driver can give.
DetailWith(b, cell) == [kind |-> "dict", id |-> b, title |-> "Book 1", extra |-> cell]

ExtraCells == {PyFloat(450), PyDecimal(999, 2), PyDatetime("2024-01-01T00:00:00")}

\* set_cached_book_detail(book_id, data) with a row of each kind.
PutBookDetail ==
    \E b \in RequestIds \ {0}, cell \in ExtraCells, fail \in BOOLEAN :
        LET v == DetailWith(b, cell)
            h == set_cached_book_detail(store, is_available, b, v, NoTtl, fail)
        IN  /\ store' = h.store
            /\ last' = Answered("set_cached_book_detail",
                                [book_id |-> b, ttl |-> NoTtl, value |-> v],
                                0, Bool(h.ok), h.fault, h.store)
            /\ seq' = NoRun
            /\ UNCHANGED <<indexVars, procVars, recCall, is_available, client, db>>

CodecKeys == {RecKey(b) : b \in RequestIds \ {0}} \cup {KEY_PREFIX_BOOKS_LIST}

\* Something other than this service's json.dumps has written the key.
ForeignWrite ==
    \E k \in CodecKeys :
        /\ is_available
        /\ store' = RedisSetex(store, k, CACHE_TTL_BOOKS, Garbage)
        /\ last' = Answered("foreign_write", k, 0, PyNone, FALSE, store')
        /\ seq' = NoRun
        /\ UNCHANGED <<indexVars, procVars, recCall, is_available, client, db>>

NextCodec ==
    \/ PutBookDetail
    \/ GetCachedBookDetail
    \/ ForeignWrite
    \/ Recommend
    \/ FetchBooks
    \/ DeleteBook

SpecCodec == Init /\ [][NextCodec]_vars

(***************************************************************************)
(* C21 (checked under SpecCodec).                                          *)
(***************************************************************************)
\* The canonical form of a value: a decimal as a float, a timestamp as its
\* ISO-8601 text.
Canonical(v) ==
    CASE v.extra.kind = "Decimal"  -> [v EXCEPT !.extra = PyFloat(v.extra.digits)]
      [] v.extra.kind = "datetime" -> [v EXCEPT !.extra = PyText(v.extra.iso)]
      [] OTHER                     -> v

PutWent(l) ==
    /\ l.op = "set_cached_book_detail" /\ "value" \in DOMAIN l.arg
    /\ ~l.fault

\* C21: a value containing a fixed-precision decimal or a timestamp is
\* accepted by the cache write (the write succeeds, the decimal stored as a
\* float and the timestamp as ISO-8601 text) and a read within TTL returns an
\* equivalent value; serialization does not reject such a value.
C21_DecimalsAndTimestampsCached ==
    PutWent(last) =>
        /\ last.body.value
        /\ DetailKey(last.arg.book_id) \in DOMAIN store
        /\ JsonDecodable(store[DetailKey(last.arg.book_id)].val)
        /\ get_cached_book_detail(store, is_available, last.arg.book_id, "no").ret
             = Canonical(last.arg.value)

(***************************************************************************)
(* C22: the service without a cache backend.                               *)
(***************************************************************************)
AllKeys ==
    {RecKey(b) : b \in RequestIds} \cup {DetailKey(b) : b \in RequestIds}
        \cup {KEY_PREFIX_BOOKS_LIST}

\* Every cache function, called while the client is unavailable, whatever the
\* server would do: a read is a miss, a write, a delete and a clear return
\* False, and the database is left as it was.
DegradedCacheIsInert ==
    /\ \A k \in AllKeys, rf \in ReadFails :
          LET g == _get_cache(store, is_available, k, rf)
          IN  g.ret = PyNone /\ g.read # "hit" /\ g.store = store /\ ~g.exc
    /\ \A k \in AllKeys, fail \in BOOLEAN :
          /\ LET w == _set_cache(store, is_available, k, TestBooks,
                                CACHE_TTL_BOOKS, fail)
             IN  ~w.ok /\ w.store = store /\ ~w.exc
          /\ LET d == _delete_cache(store, is_available, k, fail)
             IN  ~d.ok /\ d.store = store
    /\ \A fail \in BOOLEAN :
          LET c == clear_all_cache(store, is_available, fail)
          IN  ~c.ok /\ c.store = store

\* C22: constructing the cache client never fails: a backend that cannot be
\* reached when the process starts leaves is_available false and the client
\* None, the service answers requests, and while the client is unavailable
\* every cache read is a miss and every write, delete and clear does nothing
\* and returns False.
C22_StartsWithoutCache ==
    /\ client = None => ~is_available
    /\ ~is_available => DegradedCacheIsInert
    /\ (~is_available /\ last.op = "clear_cache") => last.status = 500
    /\ (client = None /\ last.op = "recommend") => last.read = "none"
    /\ (client = None /\ last.op = "fetch_books") =>
          last.read = "none" /\ last.status = 200 /\ last.computed = 1

\* The service was started without a backend and has answered GET /books.
C22_Witness ==
    /\ client = None
    /\ ~is_available
    /\ last.op = "fetch_books"
    /\ last.status = 200

(***************************************************************************)
(* C23: the status of the admin operations.                                *)
(***************************************************************************)
AdminOps == {"clear_cache", "list_cache_keys", "invalidate_book_cache",
             "invalidate_books_cache", "reconnect_redis"}

\* C23: an admin operation (clear, list keys, invalidate a book, invalidate
\* the books list, reconnect) answers with a status outside 2xx whenever the
\* cache operation under it failed, and with 2xx only when it succeeded.
C23_AdminStatusTellsOutcome ==
    last.op \in AdminOps => (last.fault <=> last.status \notin 200..299)

(***************************************************************************)
(* C24: what a hit does.                                                   *)
(***************************************************************************)
\* C24: a read-through request whose cache read was counted as a hit answers
\* with the cached value and does not run the computation, whatever the
\* cached value is (the empty list included), and writes nothing.
C24_HitNeverRecomputes ==
    (IsReadThrough(last) /\ last.read = "hit") =>
        /\ last.computed = 0
        /\ last.status = 200

(***************************************************************************)
(* C25: payloads that cannot be decoded or encoded.                        *)
(***************************************************************************)
\* The entry a read-through request is about to read cannot be decoded.
ReadsUndecodable(l) ==
    /\ IsReadThrough(l)
    /\ is_available
    /\ l.read # "none"
    /\ ReadThroughKey(l) \in DOMAIN store
    /\ ~JsonDecodable(store[ReadThroughKey(l)].val)

\* A write of a value that cannot be encoded returns False, raises nothing
\* and stores nothing.
UnencodableWriteRefused ==
    \A b \in RequestIds \ {0}, cell \in ExtraCells, fail \in BOOLEAN :
        LET w == set_cached_book_detail(store, is_available, b, DetailWith(b, cell),
                                        NoTtl, fail)
        IN  ~JsonEncodable(DetailWith(b, cell)) => ~w.ok /\ ~w.exc /\ w.store = store

\* C25: a stored payload that cannot be decoded is a miss: the read returns
\* nothing, the miss counter and not the hit counter is incremented, and the
\* request computes its result and returns it; a value that cannot be encoded
\* makes the write return False without raising.
C25_UndecodableIsMiss ==
    /\ []UnencodableWriteRefused
    /\ [][ReadsUndecodable(last') =>
            /\ last'.read = "miss"
            /\ Misses(store') = Misses(store) + 1
            /\ Hits(store') = Hits(store)
            /\ last'.computed = 1]_vars

(***************************************************************************)
(* C26: the order of the recommendations (checked under SpecRec).          *)
(***************************************************************************)
\* The row of the index an entry of the returned list was formatted from.
RowOfEntry(e) == RowOf(books_df, e.book_id)
QueryVec == books_df[RowOf(books_df, recCall.book_id)].vec

\* Entry i of the list is not farther from the query than entry j > i.
AscendingDistance ==
    \A i, j \in DOMAIN recCall.out.list :
        i < j => ~Closer(QueryVec, books_df[RowOfEntry(recCall.out.list[j])].vec,
                                   books_df[RowOfEntry(recCall.out.list[i])].vec)

\* Of two entries at the same distance, the one of the earlier row is first.
TiesInRowOrder ==
    \A i, j \in DOMAIN recCall.out.list :
        (/\ i < j
         /\ SameDistance(QueryVec, books_df[RowOfEntry(recCall.out.list[i])].vec,
                                   books_df[RowOfEntry(recCall.out.list[j])].vec))
            => RowOfEntry(recCall.out.list[i]) < RowOfEntry(recCall.out.list[j])

\* C26: for a fixed index, get_recommendations(B, n) is deterministic and
\* ordered: the same call returns the same list, and the list is in ascending
\* cosine distance from B, equidistant books in index row order.
C26_DeterministicAndOrdered ==
    Returned =>
        /\ recCall.out = get_recommendations(recCall.book_id, recCall.n)
        /\ AscendingDistance
        /\ TiesInRowOrder

(***************************************************************************)
(* C27: warming and the read-through path (checked under SpecWarm).        *)
(***************************************************************************)
\* C27: the warmer takes the read-through path of a live request: for each
\* book it first reads the cache (counted as a hit or as a miss), computes
\* only on a miss and then stores; warming K uncached books from cleared
\* counters leaves misses = K, and warming a book that is already cached
\* neither recomputes nor rewrites.
C27_WarmerReadsThrough ==
    WarmedClean =>
        /\ Misses(store) = Len(warm.selected)
        /\ Hits(store) = 0
        /\ \A i \in DOMAIN warm.selected :
              LET again == warm_book(store, is_available, warm.selected[i], FALSE)
              IN  again.computed = 0 /\ again.writes = 0

(***************************************************************************)
(* C28: a mutation of a book that does not exist.                          *)
(***************************************************************************)
\* The step is a DELETE or PUT /books/{id} for an id the table does not hold.
MutatesAbsentBook ==
    /\ last'.op \in {"delete_book", "update_book"}
    /\ last'.arg \notin DOMAIN db

\* C28: DELETE /books/{id} and PUT /books/{id} for an id that matches no row
\* answer 404 'Book not found', not 500, and leave the list snapshot cached;
\* only a mutation that affected a row invalidates it.
C28_AbsentBookIs404 ==
    [][MutatesAbsentBook =>
          /\ last'.status = 404
          /\ last'.body = ErrorBody("Book not found")
          /\ store' = store]_vars

(***************************************************************************)
(* The cache functions of cache_service.py over several entries: the       *)
(* recommendations and the detail of two books, and the books list.        *)
(***************************************************************************)
KeyIds == {MainIndex[1].book_id, MainIndex[2].book_id}

Targets ==
    {[kind |-> k, id |-> b] : k \in {"recommendations", "detail"}, b \in KeyIds}
        \cup {[kind |-> "books", id |-> 0]}

\* set_cached_recommendations / set_cached_books / set_cached_book_detail.
set_cached(st, avail, t, fail) ==
    CASE t.kind = "recommendations" ->
            set_cached_recommendations(st, avail, t.id, TestRecommendations(t.id),
                                       NoTtl, fail)
      [] t.kind = "detail" ->
            set_cached_book_detail(st, avail, t.id, TestDetail(t.id), NoTtl, fail)
      [] OTHER -> set_cached_books(st, avail, TestBooks, NoTtl, fail)

\* get_cached_recommendations / get_cached_books / get_cached_book_detail.
get_cached(st, avail, t, fail) ==
    CASE t.kind = "recommendations" -> get_cached_recommendations(st, avail, t.id, fail)
      [] t.kind = "detail"          -> get_cached_book_detail(st, avail, t.id, fail)
      [] OTHER                      -> get_cached_books(st, avail, fail)

\* invalidate_recommendations / invalidate_books_list (the detail entries
\* have no invalidation).
invalidate(st, avail, t, fail) ==
    IF t.kind = "recommendations"
    THEN invalidate_recommendations(st, avail, t.id, fail)
    ELSE invalidate_books_list(st, avail, fail)

SetEntry ==
    \E t \in Targets, fail \in BOOLEAN :
        LET h == set_cached(store, is_available, t, fail)
        IN  /\ store' = h.store
            /\ last' = Answered("set_cached", t, 0, Bool(h.ok), h.fault, h.store)
            /\ seq' = NoRun
            /\ UNCHANGED <<indexVars, procVars, recCall, is_available, client, db>>

GetEntry ==
    \E t \in Targets, fail \in ReadFails :
        LET h == get_cached(store, is_available, t, fail)
        IN  /\ CountersBelowCap
            /\ store' = h.store
            /\ last' = [op |-> "get_cached", arg |-> t, status |-> 0,
                        body |-> h.ret, computed |-> 0, read |-> h.read,
                        fault |-> h.fault, gone |-> {}]
            /\ seq' = NoRun
            /\ UNCHANGED <<indexVars, procVars, recCall, is_available, client, db>>

InvalidateEntry ==
    \E t \in {x \in Targets : x.kind # "detail"}, fail \in BOOLEAN :
        LET h == invalidate(store, is_available, t, fail)
        IN  /\ store' = h.store
            /\ last' = Answered("invalidate", t, 0, Bool(h.ok), h.fault, h.store)
            /\ seq' = NoRun
            /\ UNCHANGED <<indexVars, procVars, recCall, is_available, client, db>>

InitKeys == Init /\ books_df = MainIndex /\ knn_model = Fit(MainIndex, AscRank(MainRows))

NextKeys == SetEntry \/ GetEntry \/ InvalidateEntry

SpecKeys == InitKeys /\ [][NextKeys]_vars

(***************************************************************************)
(* C29 (checked under SpecKeys).                                           *)
(***************************************************************************)
\* The key the claim gives an entry.
NamedKey(t) ==
    CASE t.kind = "recommendations" -> "book:recommendations:" \o ToString(t.id)
      [] t.kind = "detail"          -> "book:detail:" \o ToString(t.id)
      [] OTHER                      -> "book:list:all"

\* What the cache functions read back for an entry (absent: None).
EntryOf(st, t) == get_cached(st, TRUE, t, "no").ret

\* The key names of all entries and of the two counters differ pairwise.
KeysDistinct ==
    /\ \A t, u \in Targets : t # u => NamedKey(t) # NamedKey(u)
    /\ \A t \in Targets : NamedKey(t) \notin StatsKeys
    /\ KEY_PREFIX_STATS_HITS # KEY_PREFIX_STATS_MISSES
    /\ \A b \in KeyIds :
          /\ RecKey(b) = NamedKey([kind |-> "recommendations", id |-> b])
          /\ DetailKey(b) = NamedKey([kind |-> "detail", id |-> b])
    /\ KEY_PREFIX_BOOKS_LIST = "book:list:all"
    /\ StatsKeys = {"stats:cache:hits", "stats:cache:misses"}

\* A counter holds a count, and a step leaves it or adds one to it.
CounterKept(c) ==
    /\ c \in DOMAIN store => c \in DOMAIN store'
    /\ StoredCount(store', c) \in {StoredCount(store, c), StoredCount(store, c) + 1}

HealthChecked == last'.op = "redis_health_check"
Reconnected == last'.op = "reconnect_redis"

ListRequest == [Idle EXCEPT !.pc = "list_get"]

\* GET /books arrives.
ListBegin(w) ==
    /\ reqs[w].pc = "idle"
    /\ CountersBelowCap
    /\ reqs' = [reqs EXCEPT ![w] = ListRequest]
    /\ UNCHANGED <<indexVars, warm, csv_rows, recCall, cacheVars>>

\* cached_books = get_cached_books(); if cached_books: return cached_books
ListRead(w) ==
    /\ reqs[w].pc = "list_get"
    /\ LET g == get_cached_books(store, is_available, "no")
       IN  /\ store' = g.store
           /\ reqs' = [reqs EXCEPT ![w] =
                         IF Truthy(g.ret)
                         THEN [@ EXCEPT !.pc = "list_respond", !.result = g.ret,
                                        !.read = g.read]
                         ELSE [@ EXCEPT !.pc = "query", !.read = g.read]]
    /\ UNCHANGED <<indexVars, warm, csv_rows, recCall, is_available, client, db, last, seq>>

\* cursor.execute(SELECT ...); rows = cursor.fetchall()
ListQuery(w) ==
    /\ reqs[w].pc = "query"
    /\ reqs' = [reqs EXCEPT ![w] = [@ EXCEPT !.pc = "list_set",
                       !.result = PyList(SelectBooks(db)), !.computed = 1]]
    /\ UNCHANGED <<indexVars, warm, csv_rows, recCall, cacheVars>>

\* set_cached_books(result)
ListStore(w) ==
    /\ reqs[w].pc = "list_set"
    /\ LET s == set_cached_books(store, is_available, reqs[w].result, NoTtl, FALSE)
       IN  /\ store' = s.store
           /\ reqs' = [reqs EXCEPT ![w] = [@ EXCEPT !.pc = "list_respond", !.wrote = 1]]
    /\ UNCHANGED <<indexVars, warm, csv_rows, recCall, is_available, client, db, last, seq>>

\* return result (or cached_books)
ListRespond(w) ==
    /\ reqs[w].pc = "list_respond"
    /\ LET r == reqs[w]
       IN  last' = [op |-> "fetch_books", arg |-> 0, status |-> 200, body |-> r.result,
                    computed |-> r.computed, read |-> r.read, fault |-> FALSE,
                    gone |-> {}]
    /\ reqs' = [reqs EXCEPT ![w] = Idle]
    /\ seq' = NoRun
    /\ UNCHANGED <<indexVars, warm, csv_rows, recCall, is_available, client, store, db>>

\* DELETE or PUT /books/{id} of a row the table holds: cursor.execute(...);
\* conn.commit(); cursor.rowcount is 1.
MutateCommit(w) ==
    /\ reqs[w].pc = "idle"
    /\ \E id \in DOMAIN db :
          \/ /\ db' = [i \in DOMAIN db \ {id} |-> db[i]]
             /\ reqs' = [reqs EXCEPT ![w] = [Idle EXCEPT !.pc = "invalidate",
                             !.book_id = id,
                             !.result = Message("Book deleted successfully")]]
          \/ \E title \in Titles :
                /\ db' = [db EXCEPT ![id] = title]
                /\ reqs' = [reqs EXCEPT ![w] = [Idle EXCEPT !.pc = "invalidate",
                                !.book_id = id,
                                !.result = Message("Book updated successfully")]]
    /\ UNCHANGED <<indexVars, warm, csv_rows, recCall, is_available, client, store,
                   last, seq>>

\* invalidate_books_list()
MutateInvalidate(w) ==
    /\ reqs[w].pc = "invalidate"
    /\ store' = invalidate_books_list(store, is_available, FALSE).store
    /\ reqs' = [reqs EXCEPT ![w] = [@ EXCEPT !.pc = "mutate_respond"]]
    /\ UNCHANGED <<indexVars, warm, csv_rows, recCall, is_available, client, db, last, seq>>

\* return {"message": ...}
MutateRespond(w) ==
    /\ reqs[w].pc = "mutate_respond"
    /\ last' = [op |-> IF reqs[w].result = Message("Book deleted successfully")
                       THEN "delete_book" ELSE "update_book",
                arg |-> reqs[w].book_id, status |-> 200, body |-> reqs[w].result,
                computed |-> 0, read |-> "none", fault |-> FALSE, gone |-> {}]
    /\ reqs' = [reqs EXCEPT ![w] = Idle]
    /\ seq' = NoRun
    /\ UNCHANGED <<indexVars, warm, csv_rows, recCall, is_available, client, store, db>>

NextList ==
    \/ \E w \in Workers : ListBegin(w)
    \/ \E w \in Workers : ListRead(w)
    \/ \E w \in Workers : ListQuery(w)
    \/ \E w \in Workers : ListStore(w)
    \/ \E w \in Workers : ListRespond(w)
    \/ \E w \in Workers : MutateCommit(w)
    \/ \E w \in Workers : MutateInvalidate(w)
    \/ \E w \in Workers : MutateRespond(w)

SpecList == InitConc /\ [][NextList]_vars

(***************************************************************************)
(* C31 (checked under SpecList).                                           *)
(***************************************************************************)
\* A mutation has committed and its request has not returned yet.
MutationInFlight == \E w \in Workers : reqs[w].pc \in {"invalidate", "mutate_respond"}

\* C31: under any interleaving of GET /books with a successful DELETE or PUT
\* of a book, once the mutation's request has returned the cache holds no
\* list snapshot read from the database before the mutation committed: with
\* every committed mutation returned, a cached list is the list the
\* database holds.
C31_NoStaleSnapshotAfterMutation ==
    (~MutationInFlight /\ KEY_PREFIX_BOOKS_LIST \in DOMAIN store) =>
        JsonLoads(store[KEY_PREFIX_BOOKS_LIST].val) = PyList(SelectBooks(db))

(***************************************************************************)
(* The life of the service: startup with warming, then recommendation      *)
(* requests beside invalidations, clears, health checks, reconnects and    *)
(* the passing of time.                                                    *)
(***************************************************************************)
ServeInvalidate == StartupOver /\ InvalidateBookCache
ServeClear == StartupOver /\ ClearCache
ServeHealthCheck == StartupOver /\ RedisHealthCheck
ServeAdvance == StartupOver /\ Advance

NextLife ==
    \/ StartupBegin
    \/ WarmBook
    \/ StartupEnd
    \/ ServeRecommend
    \/ ServeReconnect
    \/ ServeInvalidate
    \/ ServeClear
    \/ ServeHealthCheck
    \/ ServeAdvance

SpecLife == InitWarm /\ [][NextLife]_vars

(***************************************************************************)
(* C32 (checked under SpecLife).                                           *)
(***************************************************************************)
\* Every entry of the cache is the recommendations entry of a book of the
\* index and holds what get_recommendations computes for that book.
EntriesAreComputedResults ==
    \A k \in CacheKeys(store) :
        \E b \in BookIds(books_df) :
            /\ k = RecKey(b)
            /\ JsonDecodable(store[k].val)
            /\ JsonLoads(store[k].val) = CompleteResult(b)

\* C32: the recommendation cache is transparent: in every reachable state an
\* entry under the recommendation key of book B is {book_id: B,
\* recommendations: get_recommendations(B, 10)} for the loaded index, so GET
\* /recommend/B answers the same from the cache, computed on a miss, or
\* computed with the cache unavailable, after any sequence of requests,
\* warming, invalidations, clears, expiries and reconnects.
C32_CacheTransparent ==
    /\ EntriesAreComputedResults
    /\ last.op = "recommend" =>
          /\ last.status = DirectAnswer(last.arg).status
          /\ last.body = DirectAnswer(last.arg).body

\* A request was answered from an entry that warming wrote.
C32_Witness ==
    /\ warm.state = "done" /\ warm.writes = WarmTopK
    /\ last.op = "recommend"
    /\ last.read = "hit"
    /\ last.computed = 0
    /\ last.status = 200
    /\ Cardinality(CacheKeys(store)) = WarmTopK

====
